---- MODULE Spec2Model ----
(***************************************************************************)
(* Model of the stringly utility functions (src/src/util.rs): the nesting  *)
(* aware splitter, the protect/unprotect balancing algorithm, splitarg and *)
(* the prettify/deprettify transform.                                      *)
(*                                                                         *)
(* A Rust `&str` is modelled as a sequence of Unicode scalar values, each  *)
(* a one-element TLA+ string.  Rust indexes strings by UTF-8 byte offset,  *)
(* so every index below is a byte offset and every slice goes through      *)
(* `slice`, which aborts (Panic) when an offset is not a char boundary.    *)
(***************************************************************************)
EXTENDS Integers, Sequences, FiniteSets, TLC

VARIABLES s, test, sep, pc, protected, unprotected, iter, items, last, nones,
          once, arg, dp, pretty, depretty,
          balanced, range, shifted, value, ser, decoded, mapvalue

\* Results of is_balanced and of the index computation of unprotect, and of
\* deprettify on a text with every non-empty line indented further.
probeVars == <<balanced, range, shifted>>

\* The value being serialized, the serializer, and the deserializer's output.
serdeVars == <<value, ser, decoded, mapvalue>>

vars == <<s, test, sep, pc, protected, unprotected, iter, items, last, nones,
          once, arg, dp, pretty, depretty, probeVars, serdeVars>>

----------------------------------------------------------------------------
(* Bounds *)

MaxLen == 4
MaxNone == 2
MaxPrettyLen == 4
MaxKeyLen == 2
MaxProbeLen == 6
MaxLines == 3
MaxIndent == 3
MaxSeqLen == 3
MaxItems == 2
MaxMapLen == 3
MaxPairs == 2
MaxShift == 2
MaxAccessLen == 3
MaxCalls == 4
MaxArity == 2

----------------------------------------------------------------------------
(* Strings, UTF-8 byte offsets and slicing *)

\* A scalar value whose UTF-8 encoding is two bytes long (e.g. U+00E9).
Wide == "U+00E9"

\* The value of an operation that aborted (slice index not on a char
\* boundary or out of range, or an explicit panic!).
Panic == <<"panic!">>

len_utf8(c) == IF c = Wide THEN 2 ELSE 1

RECURSIVE str_len(_)
str_len(t) == IF t = <<>> THEN 0 ELSE len_utf8(Head(t)) + str_len(Tail(t))

\* Byte offset at which the (k+1)-th character of t starts.
byte_of(t, k) == str_len(SubSeq(t, 1, k))

\* ((offset, char)) pairs as produced by str::char_indices.
char_indices(t) == [k \in 1..Len(t) |-> <<byte_of(t, k - 1), t[k]>>]

is_char_boundary(t, b) == \E k \in 0..Len(t) : byte_of(t, k) = b

char_of(t, b) == CHOOSE k \in 0..Len(t) : byte_of(t, k) = b

\* &t[a..b]
slice(t, a, b) ==
  IF a <= b /\ is_char_boundary(t, a) /\ is_char_boundary(t, b)
  THEN SubSeq(t, char_of(t, a) + 1, char_of(t, b))
  ELSE Panic

starts_with(t, c) == Len(t) > 0 /\ t[1] = c

ends_with(t, c) == Len(t) > 0 /\ t[Len(t)] = c

\* str::find(char): byte offset of the first occurrence, -1 for None.
find(t, c) ==
  IF \E k \in 1..Len(t) : t[k] = c
  THEN byte_of(t, (CHOOSE k \in 1..Len(t) : t[k] = c /\ \A j \in 1..(k - 1) : t[j] # c) - 1)
  ELSE -1

RECURSIVE repeat(_, _)
repeat(c, n) == IF n <= 0 THEN <<>> ELSE <<c>> \o repeat(c, n - 1)

\* All strings over the alphabet A of at most n characters.
RECURSIVE StringsOf(_, _)
StringsOf(A, n) ==
  IF n = 0 THEN {<<>>}
  ELSE LET shorter == StringsOf(A, n - 1)
       IN  shorter \cup {Append(t, c) : t \in shorter, c \in A}

\* The strings over A of exactly n characters.
StringsOfLen(A, n) == {t \in StringsOf(A, n) : Len(t) = n}

\* The lists of n strings over A that hold at most `total` characters
\* altogether.
RECURSIVE ListsOf(_, _, _)
ListsOf(A, n, total) ==
  IF n = 0 THEN {<<>>}
  ELSE UNION {{<<x>> \o rest : x \in StringsOfLen(A, i),
                               rest \in ListsOf(A, n - 1, total - i)} : i \in 0..total}

----------------------------------------------------------------------------
(* SafesplitIter *)

\* Variant of the splitting loop that does not track the nesting level.
RECURSIVE scan_sep_flat(_, _, _, _)
scan_sep_flat(t, c, k, level) ==
  IF k > Len(t) THEN 0
  ELSE IF t[k] = c THEN k
  ELSE scan_sep_flat(t, c, k + 1, level)

\* The loop of SafesplitIter::next and safesplit_once: position (1-based, in
\* characters) of the first `sep` seen while `level` is 0, scanning t from
\* character k on; 0 when the loop runs to the end.
RECURSIVE scan_sep(_, _, _, _)
scan_sep(t, c, k, level) ==
  IF k > Len(t) THEN 0
  ELSE IF t[k] = c /\ level = 0 THEN k
  ELSE IF t[k] = "{" THEN scan_sep(t, c, k + 1, level + 1)
  ELSE IF t[k] = "}" THEN scan_sep(t, c, k + 1, level - 1)
  ELSE scan_sep(t, c, k + 1, level)

safesplit(t, c) == [s |-> t, sep |-> c, i |-> 0, exhausted |-> (t = <<>>)]

\* SafesplitIter::next: the iterator afterwards, and what the call returned.
SafesplitIter_next(it) ==
  IF it.exhausted THEN [it |-> it, kind |-> "None", item |-> <<>>]
  ELSE
    LET i    == it.i
        rest == slice(it.s, i, str_len(it.s))
    IN  IF rest = Panic THEN [it |-> it, kind |-> "Panic", item |-> <<>>]
        ELSE
          LET k == scan_sep(rest, it.sep, 1, 0)
              n == byte_of(rest, k - 1)
          IN  IF k > 0
              THEN LET item == slice(it.s, i, i + n)
                   IN  [it   |-> [it EXCEPT !.i = i + n + 1],
                        kind |-> IF item = Panic THEN "Panic" ELSE "Some",
                        item |-> IF item = Panic THEN <<>> ELSE item]
              ELSE [it   |-> [it EXCEPT !.exhausted = TRUE],
                    kind |-> "Some",
                    item |-> rest]

----------------------------------------------------------------------------
(* safesplit_once *)

Unset == [tag |-> "Unset", a |-> <<>>, b |-> <<>>]
Ok(x, y) == [tag |-> "Ok", a |-> x, b |-> y]
Err(e) == [tag |-> e, a |-> <<>>, b |-> <<>>]
Aborted == [tag |-> "Panic", a |-> <<>>, b |-> <<>>]

\* Variant of safesplit_once that skips one byte instead of sep.len_utf8().
safesplit_once_one_byte(t, c) ==
  IF t = <<>> THEN Err("SeparatorNotFound")
  ELSE
    LET k == scan_sep(t, c, 1, 0)
        i == byte_of(t, k - 1)
    IN  IF k > 0
        THEN LET x == slice(t, 0, i)
                 y == slice(t, i + 1, str_len(t))
             IN  IF x = Panic \/ y = Panic THEN Aborted ELSE Ok(x, y)
        ELSE Err("SeparatorNotFound")


safesplit_once(t, c) ==
  IF t = <<>> THEN Err("SeparatorNotFound")
  ELSE
    LET k == scan_sep(t, c, 1, 0)
        i == byte_of(t, k - 1)
    IN  IF k > 0
        THEN LET x == slice(t, 0, i)
                 y == slice(t, i + len_utf8(c), str_len(t))
             IN  IF x = Panic \/ y = Panic THEN Aborted ELSE Ok(x, y)
        ELSE Err("SeparatorNotFound")

----------------------------------------------------------------------------
(* Balancers *)

None == -1

\* The `for (i, ch) in chars` loop of left_balancer_end, from character k.
RECURSIVE left_balancer_loop(_, _)
left_balancer_loop(t, k) ==
  IF k > Len(t) THEN None
  ELSE IF t[k] = "{" THEN left_balancer_loop(t, k + 1)
  ELSE IF t[k] = ">" THEN byte_of(t, k - 1) + 1
  ELSE None

\* Byte offset i such that t[..i] is a left balancer '<' '{'* '>', or None.
left_balancer_end(t) ==
  IF t = <<>> THEN None
  ELSE IF t[1] # "<" THEN None
  ELSE left_balancer_loop(t, 2)

\* The reversed loop of right_balancer_start, from character k downwards.
RECURSIVE right_balancer_loop(_, _)
right_balancer_loop(t, k) ==
  IF k < 1 THEN None
  ELSE IF t[k] = "}" THEN right_balancer_loop(t, k - 1)
  ELSE IF t[k] = "<" THEN byte_of(t, k - 1)
  ELSE None

\* Byte offset i such that t[i..] is a right balancer '<' '}'* '>', or None.
right_balancer_start(t) ==
  IF t = <<>> THEN None
  ELSE IF t[Len(t)] # ">" THEN None
  ELSE right_balancer_loop(t, Len(t) - 1)

\* Variant of starts_with_balancer that overlooks the zero-repeat marker '<>'.
starts_with_balancer_nonempty(t) == left_balancer_end(t) # None /\ left_balancer_end(t) > 2

starts_with_balancer(t) == left_balancer_end(t) # None

\* Variant of ends_with_balancer that ignores the right balancer "<>".
ends_with_balancer_nonempty(t) ==
  right_balancer_start(t) # None /\ str_len(t) - right_balancer_start(t) > 2

ends_with_balancer(t) == right_balancer_start(t) # None

----------------------------------------------------------------------------
(* ProtectTest and protect *)

\* impl ProtectTest for char
ProtectTestChar(c) == [UNCONDITIONAL |-> FALSE, kind |-> "char", chars |-> <<c>>]

\* Variant of the test [char; 2] that looks at the first character only.
ProtectTestPair_first(c, d) == [UNCONDITIONAL |-> FALSE, kind |-> "char", chars |-> <<c>>]

\* impl ProtectTest for [char; 2]
ProtectTestPair(c, d) == [UNCONDITIONAL |-> FALSE, kind |-> "pair", chars |-> <<c, d>>]

ProtectTestFalse == [UNCONDITIONAL |-> FALSE, kind |-> "false", chars |-> <<>>]

ProtectTestTrue == [UNCONDITIONAL |-> TRUE, kind |-> "true", chars |-> <<>>]

\* ProtectTest::test
test_test(T, ch) ==
  CASE T.kind = "char"  -> ch = T.chars[1]
    [] T.kind = "pair"  -> ch = T.chars[1] \/ ch = T.chars[2]
    [] T.kind = "false" -> FALSE
    [] T.kind = "true"  -> TRUE

\* Variant of the scanning loop that compares the level before the decrement.
RECURSIVE protect_scan_stale(_, _, _, _, _, _)
protect_scan_stale(t, T, k, level, l, needs_protection) ==
  IF k > Len(t) THEN <<l, level, needs_protection>>
  ELSE IF t[k] = "{" THEN protect_scan_stale(t, T, k + 1, level + 1, l, needs_protection)
  ELSE IF t[k] = "}"
    THEN protect_scan_stale(t, T, k + 1, level - 1,
                            IF -level > l THEN -level ELSE l, needs_protection)
  ELSE IF ~T.UNCONDITIONAL /\ ~needs_protection /\ level = 0 /\ test_test(T, t[k])
    THEN protect_scan_stale(t, T, k + 1, level, l, TRUE)
  ELSE protect_scan_stale(t, T, k + 1, level, l, needs_protection)

\* The scanning loop of protect: (l, level, needs_protection) after the
\* characters from k on have been visited.
RECURSIVE protect_scan(_, _, _, _, _, _)
protect_scan(t, T, k, level, l, needs_protection) ==
  IF k > Len(t) THEN <<l, level, needs_protection>>
  ELSE IF t[k] = "{" THEN protect_scan(t, T, k + 1, level + 1, l, needs_protection)
  ELSE IF t[k] = "}"
    THEN protect_scan(t, T, k + 1, level - 1,
                      IF -(level - 1) > l THEN -(level - 1) ELSE l, needs_protection)
  ELSE IF ~T.UNCONDITIONAL /\ ~needs_protection /\ level = 0 /\ test_test(T, t[k])
    THEN protect_scan(t, T, k + 1, level, l, TRUE)
  ELSE protect_scan(t, T, k + 1, level, l, needs_protection)

\* Variant of protect that does not wrap a string that starts with '{' and
\* ends with '}'.
protect_braced_unwrapped(t, T) ==
  LET np0  == T.UNCONDITIONAL
      scan == protect_scan(t, T, 1, 0, 0, np0)
      l    == scan[1]
      r    == scan[2] + l
      needs_protection == scan[3]
  IN  IF needs_protection \/ l > 0 \/ r > 0
      THEN <<"{">>
           \o (IF l > 0 \/ starts_with_balancer(t)
               THEN <<"<">> \o repeat("{", l) \o <<">">> ELSE <<>>)
           \o t
           \o (IF r > 0 \/ ends_with_balancer(t)
               THEN <<"<">> \o repeat("}", r) \o <<">">> ELSE <<>>)
           \o <<"}">>
      ELSE t

protect(t, T) ==
  LET np0  == IF T.UNCONDITIONAL THEN TRUE ELSE starts_with(t, "{") /\ ends_with(t, "}")
      scan == protect_scan(t, T, 1, 0, 0, np0)
      l    == scan[1]
      r    == scan[2] + l
      needs_protection == scan[3]
  IN  IF needs_protection \/ l > 0 \/ r > 0
      THEN <<"{">>
           \o (IF l > 0 \/ starts_with_balancer(t)
               THEN <<"<">> \o repeat("{", l) \o <<">">> ELSE <<>>)
           \o t
           \o (IF r > 0 \/ ends_with_balancer(t)
               THEN <<"<">> \o repeat("}", r) \o <<">">> ELSE <<>>)
           \o <<"}">>
      ELSE t

\* Variant of protect_unconditionally that wraps only when protect must.
protect_when_needed(t) == protect(t, ProtectTestFalse)

protect_unconditionally(t) == protect(t, ProtectTestTrue)

protect_unbalanced(t) == protect(t, ProtectTestFalse)

----------------------------------------------------------------------------
(* unprotect, is_balanced, splitarg *)

\* Variant of unprotect_range that looks for the left balancer in the whole
\* interior instead of &s[1..r].
unprotect_range_whole(t) ==
  LET inner == slice(t, 1, str_len(t) - 1)
  IN  IF inner = Panic THEN <<-1, -1>>
      ELSE LET rb == right_balancer_start(inner)
               r  == IF rb # None THEN rb + 1 ELSE str_len(t) - 1
               lb == left_balancer_end(inner)
               l  == IF lb # None THEN lb + 1 ELSE 1
           IN  <<l, r>>

\* The indexes (l, r) unprotect computes for a string that starts with '{'
\* and ends with '}'; <<-1, -1>> when one of its slices aborts.
unprotect_range(t) ==
  LET inner == slice(t, 1, str_len(t) - 1)
  IN  IF inner = Panic THEN <<-1, -1>>
      ELSE LET rb  == right_balancer_start(inner)
               r   == IF rb # None THEN rb + 1 ELSE str_len(t) - 1
               mid == slice(t, 1, r)
           IN  IF mid = Panic THEN <<-1, -1>>
               ELSE LET lb == left_balancer_end(mid)
                        l  == IF lb # None THEN lb + 1 ELSE 1
                    IN  <<l, r>>

unprotect(t) ==
  IF starts_with(t, "{") /\ ends_with(t, "}")
  THEN LET lr == unprotect_range(t)
       IN  IF lr = <<-1, -1>> THEN Panic ELSE slice(t, lr[1], lr[2])
  ELSE t

\* Variant of the loop of is_balanced without the early return.
RECURSIVE is_balanced_loop_final(_, _, _)
is_balanced_loop_final(t, k, level) ==
  IF k > Len(t) THEN level = 0
  ELSE IF t[k] = "{" THEN is_balanced_loop_final(t, k + 1, level + 1)
  ELSE IF t[k] = "}" THEN is_balanced_loop_final(t, k + 1, level - 1)
  ELSE is_balanced_loop_final(t, k + 1, level)

RECURSIVE is_balanced_loop(_, _, _)
is_balanced_loop(t, k, level) ==
  IF k > Len(t) THEN level = 0
  ELSE IF t[k] = "{" THEN is_balanced_loop(t, k + 1, level + 1)
  ELSE IF t[k] = "}"
    THEN IF level - 1 < 0 THEN FALSE ELSE is_balanced_loop(t, k + 1, level - 1)
  ELSE is_balanced_loop(t, k + 1, level)

is_balanced(t) == is_balanced_loop(t, 1, 0)

\* Variant of splitarg without the balance check.
splitarg_unchecked(t) ==
  LET i == find(t, "{")
  IN  IF i # -1
      THEN IF i > 0 /\ ends_with(t, "}")
           THEN LET tag  == slice(t, 0, i)
                    rest == slice(t, i, str_len(t))
                    val  == IF rest = Panic THEN Panic ELSE unprotect(rest)
                IN  IF tag = Panic \/ val = Panic THEN Aborted ELSE Ok(tag, val)
           ELSE Err("NotAnEnum")
      ELSE Ok(t, <<>>)

\* Variant of splitarg that does not require the closing brace at the end.
splitarg_open_end(t) ==
  IF ~is_balanced(t) THEN Err("NotAnEnum")
  ELSE LET i == find(t, "{")
       IN  IF i # -1
           THEN IF i > 0
                THEN LET tag  == slice(t, 0, i)
                         rest == slice(t, i, str_len(t))
                         val  == IF rest = Panic THEN Panic ELSE unprotect(rest)
                     IN  IF tag = Panic \/ val = Panic THEN Aborted ELSE Ok(tag, val)
                ELSE Err("NotAnEnum")
           ELSE Ok(t, <<>>)

splitarg(t) ==
  IF ~is_balanced(t) THEN Err("NotAnEnum")
  ELSE LET i == find(t, "{")
       IN  IF i # -1
           THEN IF i > 0 /\ ends_with(t, "}")
                THEN LET tag  == slice(t, 0, i)
                         rest == slice(t, i, str_len(t))
                         val  == IF rest = Panic THEN Panic ELSE unprotect(rest)
                     IN  IF tag = Panic \/ val = Panic THEN Aborted ELSE Ok(tag, val)
                ELSE Err("NotAnEnum")
           ELSE Ok(t, <<>>)

----------------------------------------------------------------------------
(* prettify *)

NL == "\n"

HasNL(t) == \E k \in 1..Len(t) : t[k] = NL

SP == " "

\* safesplit(t, c).collect(): the items up to the first None.
RECURSIVE collect(_, _)
collect(it, acc) ==
  LET res == SafesplitIter_next(it)
  IN  CASE res.kind = "None"  -> [ok |-> TRUE, items |-> acc]
        [] res.kind = "Panic" -> [ok |-> FALSE, items |-> acc]
        [] res.kind = "Some"  -> collect(res.it, Append(acc, res.item))

\* Variant of escape_lines that starts the continuation lines at column 0.
RECURSIVE escape_lines_flat(_, _, _)
escape_lines_flat(part, indent, k) ==
  IF k > Len(part) THEN <<>>
  ELSE IF part[k] = NL
    THEN <<NL, SP, "|">> \o escape_lines_flat(part, indent, k + 1)
  ELSE <<part[k]>> \o escape_lines_flat(part, indent, k + 1)

\* The match_indices('\n') loop of prettify_scope: the text of an escaped
\* block after its '>|', from character k of part on.
RECURSIVE escape_lines(_, _, _)
escape_lines(part, indent, k) ==
  IF k > Len(part) THEN <<>>
  ELSE IF part[k] = NL
    THEN <<NL>> \o indent \o <<SP, "|">> \o escape_lines(part, indent, k + 1)
  ELSE <<part[k]>> \o escape_lines(part, indent, k + 1)

starts_with_str(t, u) == Len(t) >= Len(u) /\ SubSeq(t, 1, Len(u)) = u

\* What prettify_scope appends to `pretty`.
RECURSIVE prettify_scope(_, _)

\* Variant of prettify_part that does not test the balance of the interior.
prettify_part_unbalanced(item, indent) ==
  LET i     == find(item, "{")
      inner == slice(item, i + 1, str_len(item) - 1)
      scoped == i # -1 /\ i > 0 /\ ends_with(item, "}")
      part  == IF scoped THEN slice(item, 0, i) ELSE item
      text  == IF \/ part = <<>>
                  \/ starts_with(part, SP)
                  \/ starts_with_str(part, <<">", "|">>)
                  \/ HasNL(part)
               THEN <<">", "|">> \o escape_lines(part, indent, 1)
               ELSE part
  IN  indent \o text \o <<NL>>
      \o (IF scoped THEN prettify_scope(inner, indent \o <<SP, SP>>) ELSE <<>>)

\* The body of the `for part in safesplit(s, ',')` loop.
prettify_part(item, indent) ==
  LET i     == find(item, "{")
      inner == slice(item, i + 1, str_len(item) - 1)
      scoped == i # -1 /\ i > 0 /\ ends_with(item, "}") /\ is_balanced(inner)
      part  == IF scoped THEN slice(item, 0, i) ELSE item
      text  == IF \/ part = <<>>
                  \/ starts_with(part, SP)
                  \/ starts_with_str(part, <<">", "|">>)
                  \/ HasNL(part)
               THEN <<">", "|">> \o escape_lines(part, indent, 1)
               ELSE part
  IN  indent \o text \o <<NL>>
      \o (IF scoped THEN prettify_scope(inner, indent \o <<SP, SP>>) ELSE <<>>)

RECURSIVE prettify_parts(_, _, _)
prettify_parts(parts, k, indent) ==
  IF k > Len(parts) THEN <<>>
  ELSE prettify_part(parts[k], indent) \o prettify_parts(parts, k + 1, indent)

prettify_scope(t, indent) ==
  IF t = <<>> THEN indent \o <<">", "|">>
  ELSE prettify_parts(collect(safesplit(t, ","), <<>>).items, 1, indent)

prettify(t) == IF t = <<>> THEN t ELSE prettify_scope(t, <<>>)

----------------------------------------------------------------------------
(* deprettify *)

DUnset == [tag |-> "Unset", s |-> <<>>, lineno |-> 0]
DOk(x) == [tag |-> "Ok", s |-> x, lineno |-> 0]
DErr(e, n) == [tag |-> e, s |-> <<>>, lineno |-> n]
DAborted == [tag |-> "Panic", s |-> <<>>, lineno |-> 0]

\* pretty.split('\n')
RECURSIVE split_lines(_, _, _)
split_lines(t, k, cur) ==
  IF k > Len(t) THEN <<cur>>
  ELSE IF t[k] = NL THEN <<cur>> \o split_lines(t, k + 1, <<>>)
  ELSE split_lines(t, k + 1, Append(cur, t[k]))

\* line.len() - line.trim_start_matches(' ').len()
RECURSIVE leading_spaces(_, _)
leading_spaces(line, k) ==
  IF k <= Len(line) /\ line[k] = SP THEN 1 + leading_spaces(line, k + 1) ELSE 0

\* Variant of has_marker that looks for the marker at the start of the line.
has_marker_col0(line, indent, mark) ==
  IF str_len(line) < 2 THEN "no"
  ELSE LET m == slice(line, 0, 2)
       IN  IF m = Panic THEN "panic"
           ELSE IF m = mark THEN "yes" ELSE "no"

\* The test `line.len() >= indent + 2 && line[..indent].chars().all(' ') &&
\* &line[indent..indent + 2] == mark`: "yes", "no" or "panic".
has_marker(line, indent, mark) ==
  IF str_len(line) < indent + 2 THEN "no"
  ELSE LET head == slice(line, 0, indent)
       IN  IF head = Panic THEN "panic"
           ELSE IF ~(\A k \in 1..Len(head) : head[k] = SP) THEN "no"
           ELSE LET m == slice(line, indent, indent + 2)
                IN  IF m = Panic THEN "panic"
                    ELSE IF m = mark THEN "yes" ELSE "no"

\* Variant of the unindent loop that stops at the first level that is not
\* deeper than `indent`.
RECURSIVE unindent_below(_, _, _)
unindent_below(indents, indent, out) ==
  IF indents = <<>> THEN [ok |-> FALSE, indents |-> indents, s |-> out]
  ELSE IF indent >= indents[Len(indents)] THEN [ok |-> TRUE, indents |-> indents, s |-> out]
  ELSE unindent_below(SubSeq(indents, 1, Len(indents) - 1), indent, Append(out, "}"))

\* The unindent loop: pop and close every level that is not `indent`.
RECURSIVE unindent(_, _, _)
unindent(indents, indent, out) ==
  IF indents = <<>> THEN [ok |-> FALSE, indents |-> indents, s |-> out]
  ELSE IF indent = indents[Len(indents)] THEN [ok |-> TRUE, indents |-> indents, s |-> out]
  ELSE unindent(SubSeq(indents, 1, Len(indents) - 1), indent, Append(out, "}"))

\* The `while let Some(..) = lines.peek()` loop of an escaped block.
RECURSIVE continuation(_, _, _, _)
continuation(lines, n, indent, out) ==
  IF n > Len(lines) THEN [n |-> n, s |-> out, ok |-> TRUE]
  ELSE LET m == has_marker(lines[n], indent, <<SP, "|">>)
       IN  IF m = "panic" THEN [n |-> n, s |-> out, ok |-> FALSE]
           ELSE IF m = "yes"
             THEN continuation(lines, n + 1, indent,
                               out \o <<NL>> \o slice(lines[n], indent + 2, str_len(lines[n])))
           ELSE [n |-> n, s |-> out, ok |-> TRUE]

\* Variant of deprettify_start with the level 0 already open.
deprettify_start_based(t) ==
  [lines |-> split_lines(t, 1, <<>>), n |-> 1, s |-> <<>>, indents |-> <<0>>,
   result |-> DUnset]

\* State of the loop of deprettify before any line is read.
deprettify_start(t) ==
  [lines |-> split_lines(t, 1, <<>>), n |-> 1, s |-> <<>>, indents |-> <<>>,
   result |-> DUnset]

\* Variant of match_indents_last in which an increase of one space opens a
\* scope like any other increase.
match_indents_last_lenient(indents, indent, out) ==
  IF indents = <<>>
  THEN [ok |-> "ok", indents |-> <<indent>>, s |-> out]
  ELSE IF indent > indents[Len(indents)]
    THEN [ok |-> "ok", indents |-> Append(indents, indent), s |-> Append(out, "{")]
  ELSE LET u == unindent(indents, indent, out)
       IN  IF u.ok
           THEN [ok |-> "ok", indents |-> u.indents, s |-> Append(u.s, ",")]
           ELSE [ok |-> "UnmatchedUnindent", indents |-> u.indents, s |-> u.s]

\* `match indents.last() { .. }`: the first line, a deeper line or an
\* unindent; `indents` and `s` are the locals as the match leaves them.
match_indents_last(indents, indent, out) ==
  IF indents = <<>>
  THEN [ok |-> "ok", indents |-> <<indent>>, s |-> out]
  ELSE IF indent > indents[Len(indents)]
    THEN IF indent - indents[Len(indents)] = 1
         THEN [ok |-> "IndentTooSmall", indents |-> indents, s |-> out]
         ELSE [ok |-> "ok", indents |-> Append(indents, indent), s |-> Append(out, "{")]
  ELSE LET u == unindent(indents, indent, out)
       IN  IF u.ok
           THEN [ok |-> "ok", indents |-> u.indents, s |-> Append(u.s, ",")]
           ELSE [ok |-> "UnmatchedUnindent", indents |-> u.indents, s |-> u.s]

\* One iteration of `while let Some((iline, line)) = lines.next()`.  When the
\* iteration returns an error or aborts, `s` and `indents` are the locals at
\* that point.
deprettify_line(st) ==
  LET line   == st.lines[st.n]
      lineno == st.n
      indent == leading_spaces(line, 1)
  IN  IF line = <<>> THEN [st EXCEPT !.n = st.n + 1]
      ELSE
        LET opened == match_indents_last(st.indents, indent, st.s)
            at     == [st EXCEPT !.s = opened.s, !.indents = opened.indents]
        IN  IF opened.ok # "ok"
            THEN [at EXCEPT !.result = DErr(opened.ok, lineno)]
            ELSE
              LET m == has_marker(line, indent, <<">", "|">>)
              IN  IF m = "panic" THEN [at EXCEPT !.result = DAborted]
                  ELSE IF m = "yes"
                    THEN LET c == continuation(st.lines, st.n + 1, indent,
                                    opened.s \o slice(line, indent + 2, str_len(line)))
                         IN  IF c.ok
                             THEN [at EXCEPT !.n = c.n, !.s = c.s]
                             ELSE [at EXCEPT !.n = c.n, !.s = c.s, !.result = DAborted]
                  ELSE [at EXCEPT !.n = st.n + 1,
                                  !.s = opened.s \o slice(line, indent, str_len(line))]

\* Variant of the code after the loop that closes every open level.
deprettify_end_all(st) ==
  DOk(st.s \o repeat("}", Len(st.indents)))

\* The code after the loop: close the levels still open beyond the first.
deprettify_end(st) ==
  DOk(st.s \o repeat("}", Len(st.indents) - 1))

RECURSIVE deprettify_run(_)
deprettify_run(st) ==
  IF st.result # DUnset THEN st.result
  ELSE IF st.n > Len(st.lines) THEN deprettify_end(st)
  ELSE deprettify_run(deprettify_line(st))

deprettify(t) == deprettify_run(deprettify_start(t))

----------------------------------------------------------------------------
(* Inputs *)

\* Characters of the inputs of protect: the four characters protect and
\* unprotect treat specially, and the two separators the serializer uses.
ProtectChars == {"{", "}", "<", ">", ",", "="}

\* The implementations of ProtectTest.
Tests == {ProtectTestChar(","), ProtectTestChar("="), ProtectTestChar("<"),
          ProtectTestChar("{"), ProtectTestPair(",", "="),
          ProtectTestFalse, ProtectTestTrue}

\* Characters of the inputs of the splitters: braces, a one-byte and a
\* two-byte separator, and the balancer characters as ordinary text.
SplitChars == {"{", "}", ",", "<", ">", Wide}

Seps == {",", Wide}

\* Characters of the inputs of prettify: text, the separator, braces, and
\* the characters that force an escaped block.
PrettyChars == {"a", ",", "{", "}", SP, NL, ">", "|"}

NoIter == [s |-> <<>>, sep |-> ",", i |-> 0, exhausted |-> TRUE]

\* A serializer not yet created, and DeserializeMap.value == None.
NoSer == [n |-> 0, output |-> <<>>]

NoValue == [some |-> FALSE, s |-> <<>>]

NoShifted == [k |-> 0, result |-> DUnset]

NoDp == [lines |-> <<>>, n |-> 1, s |-> <<>>, indents |-> <<>>, result |-> DUnset]

----------------------------------------------------------------------------
(* State machine: one action per call *)

InitCommon ==
  /\ pc = "start"
  /\ protected = <<>>
  /\ unprotected = <<>>
  /\ iter = NoIter
  /\ items = <<>>
  /\ last = "New"
  /\ nones = 0
  /\ once = Unset
  /\ arg = Unset
  /\ dp = NoDp
  /\ pretty = <<>>
  /\ depretty = DUnset
  /\ balanced = "Unset"
  /\ range = <<0, 0>>
  /\ shifted = NoShifted
  /\ ser = NoSer
  /\ decoded = <<>>
  /\ mapvalue = NoValue

\* let protected = protect(s, test)
Protect ==
  /\ pc = "start"
  /\ protected' = protect(s, test)
  /\ pc' = "protected"
  /\ UNCHANGED <<probeVars, serdeVars, s, test, sep, unprotected, iter, items, last, nones, once, arg,
                 dp, pretty, depretty>>

\* let unprotected = unprotect(&protected)
Unprotect ==
  /\ pc = "protected"
  /\ unprotected' = unprotect(protected)
  /\ pc' = "unprotected"
  /\ UNCHANGED <<probeVars, serdeVars, s, test, sep, protected, iter, items, last, nones, once, arg,
                 dp, pretty, depretty>>

\* let iter = safesplit(&protected, sep) for a single-character test
SafesplitProtected ==
  /\ pc = "protected"
  /\ test.kind = "char"
  /\ sep' = test.chars[1]
  /\ iter' = safesplit(protected, test.chars[1])
  /\ items' = <<>>
  /\ last' = "New"
  /\ nones' = 0
  /\ pc' = "iter"
  /\ UNCHANGED <<probeVars, serdeVars, s, test, protected, unprotected, once, arg, dp, pretty, depretty>>

\* let iter = safesplit(s, sep)
Safesplit ==
  /\ pc = "start"
  /\ iter' = safesplit(s, sep)
  /\ items' = <<>>
  /\ last' = "New"
  /\ nones' = 0
  /\ pc' = "iter"
  /\ UNCHANGED <<probeVars, serdeVars, s, test, sep, protected, unprotected, once, arg, dp, pretty,
                 depretty>>

\* iter.next(); a call that aborts ends the run
IterNext ==
  /\ pc = "iter"
  /\ last # "Panic"
  /\ nones < MaxNone
  /\ LET res == SafesplitIter_next(iter)
     IN  /\ iter' = res.it
         /\ last' = res.kind
         /\ items' = IF res.kind = "Some" THEN Append(items, res.item) ELSE items
         /\ nones' = IF res.kind = "None" THEN nones + 1 ELSE nones
  /\ UNCHANGED <<probeVars, serdeVars, s, test, sep, pc, protected, unprotected, once, arg, dp, pretty,
                 depretty>>

\* let once = safesplit_once(s, sep)
SafesplitOnce ==
  /\ pc = "start"
  /\ once' = safesplit_once(s, sep)
  /\ pc' = "once"
  /\ UNCHANGED <<probeVars, serdeVars, s, test, sep, protected, unprotected, iter, items, last, nones,
                 arg, dp, pretty, depretty>>

\* let arg = splitarg(s)
Splitarg ==
  /\ pc = "start"
  /\ arg' = splitarg(s)
  /\ pc' = "arg"
  /\ UNCHANGED <<probeVars, serdeVars, s, test, sep, protected, unprotected, iter, items, last, nones,
                 once, dp, pretty, depretty>>

\* protect, unprotect and the split of a protected token
InitProtect ==
  /\ s \in StringsOf(ProtectChars, MaxLen)
  /\ test \in Tests
  /\ sep = ","
  /\ value = <<>>
  /\ InitCommon

NextProtect == Protect \/ Unprotect \/ SafesplitProtected \/ IterNext

SpecProtect == InitProtect /\ [][NextProtect]_vars

\* the splitters on arbitrary input
InitSplit ==
  /\ s \in StringsOf(SplitChars, MaxLen)
  /\ sep \in Seps
  /\ test = ProtectTestFalse
  /\ value = <<>>
  /\ InitCommon

NextSplit == Safesplit \/ IterNext \/ SafesplitOnce \/ Splitarg

SpecSplit == InitSplit /\ [][NextSplit]_vars

\* let pretty = prettify(s)
Prettify ==
  /\ pc = "start"
  /\ pretty' = prettify(s)
  /\ pc' = "prettified"
  /\ UNCHANGED <<probeVars, serdeVars, s, test, sep, protected, unprotected, iter, items, last, nones,
                 once, arg, dp, depretty>>

\* deprettify(&pretty), up to the loop
DeprettifyPretty ==
  /\ pc = "prettified"
  /\ dp' = deprettify_start(pretty)
  /\ pc' = "deprettify"
  /\ UNCHANGED <<probeVars, serdeVars, s, test, sep, protected, unprotected, iter, items, last, nones,
                 once, arg, pretty, depretty>>

\* one iteration of the loop of deprettify; an error returns at once
DeprettifyLine ==
  /\ pc = "deprettify"
  /\ dp.n <= Len(dp.lines)
  /\ LET st == deprettify_line(dp)
     IN  /\ dp' = st
         /\ depretty' = st.result
         /\ pc' = IF st.result # DUnset THEN "deprettified" ELSE pc
  /\ UNCHANGED <<probeVars, serdeVars, s, test, sep, protected, unprotected, iter, items, last, nones,
                 once, arg, pretty>>

\* the end of deprettify, once the lines are consumed
DeprettifyEnd ==
  /\ pc = "deprettify"
  /\ dp.n > Len(dp.lines)
  /\ depretty' = deprettify_end(dp)
  /\ pc' = "deprettified"
  /\ UNCHANGED <<probeVars, serdeVars, s, test, sep, protected, unprotected, iter, items, last, nones,
                 once, arg, pretty, dp>>

\* prettify and deprettify of the result
InitPretty ==
  /\ s \in StringsOf(PrettyChars, MaxPrettyLen)
  /\ sep = ","
  /\ test = ProtectTestChar(",")
  /\ value = <<>>
  /\ InitCommon

NextPretty == Prettify \/ DeprettifyPretty \/ DeprettifyLine \/ DeprettifyEnd

SpecPretty == InitPretty /\ [][NextPretty]_vars

----------------------------------------------------------------------------
(* Tags: key + protect_unconditionally(value), and splitarg of the result *)

\* Characters of the keys: no brace; a balancer character and a two-byte
\* character.
KeyChars == {"<", Wide}

\* serialize_newtype_variant(variant, value) on the serialized value: the
\* variant alone if the value is empty, else
\* [variant, protect_unconditionally(value)].concat()
serialize_newtype_variant ==
  /\ pc = "start"
  /\ ser' = [n      |-> 0,
             output |-> IF value = <<>> THEN s
                        ELSE s \o protect_unconditionally(value)]
  /\ pc' = IF value = <<>> THEN "unit" ELSE "tagged"
  /\ UNCHANGED <<probeVars, value, decoded, mapvalue, s, test, sep, protected,
                 unprotected, iter, items, last, nones, once, arg, dp, pretty,
                 depretty>>

\* SerializeVariantSequence::end with self.variant the key and self.output
\* the value: [variant, protect_unconditionally(output)].concat(), also for
\* an empty output
SerializeVariantSequence_end ==
  /\ pc = "start"
  /\ ser' = [n |-> 0, output |-> s \o protect_unconditionally(value)]
  /\ pc' = "tagged"
  /\ UNCHANGED <<probeVars, value, decoded, mapvalue, s, test, sep, protected,
                 unprotected, iter, items, last, nones, once, arg, dp, pretty,
                 depretty>>

\* let arg = splitarg(&output)
SplitargTagged ==
  /\ pc \in {"tagged", "unit"}
  /\ arg' = splitarg(ser.output)
  /\ pc' = IF pc = "tagged" THEN "arg_tagged" ELSE "arg_unit"
  /\ UNCHANGED <<probeVars, serdeVars, s, test, sep, protected, unprotected, iter,
                 items, last, nones, once, dp, pretty, depretty>>

InitTag ==
  /\ s \in StringsOf(KeyChars, MaxKeyLen)
  /\ value \in StringsOf(ProtectChars, MaxLen)
  /\ sep = ","
  /\ test = ProtectTestTrue
  /\ InitCommon

NextTag == serialize_newtype_variant \/ SerializeVariantSequence_end \/ SplitargTagged

SpecTag == InitTag /\ [][NextTag]_vars

----------------------------------------------------------------------------
(* deprettify on arbitrary text *)

\* What follows the indent of a line: nothing, an item, the two markers
\* (" |" is one more space and "|"), a brace as content and an item with a
\* two-byte character.
Bodies == {<<>>, <<"a">>, <<">", "|">>, <<"|">>, <<"}">>, <<"a", Wide>>}

LineSet == {repeat(SP, i) \o b : i \in 0..MaxIndent, b \in Bodies}

\* The lines joined with '\n'.
RECURSIVE JoinLines(_)
JoinLines(ls) ==
  IF Len(ls) = 1 THEN ls[1] ELSE ls[1] \o <<NL>> \o JoinLines(Tail(ls))

\* deprettify(&s), up to the loop
DeprettifyText ==
  /\ pc = "start"
  /\ dp' = deprettify_start(s)
  /\ pc' = "deprettify"
  /\ UNCHANGED <<probeVars, serdeVars, s, test, sep, protected, unprotected, iter,
                 items, last, nones, once, arg, pretty, depretty>>

InitDepretty ==
  /\ \E n \in 1..MaxLines : \E ls \in [1..n -> LineSet] : s = JoinLines(ls)
  /\ sep = ","
  /\ test = ProtectTestChar(",")
  /\ value = <<>>
  /\ InitCommon

NextDepretty == DeprettifyText \/ DeprettifyLine \/ DeprettifyEnd

SpecDepretty == InitDepretty /\ [][NextDepretty]_vars

----------------------------------------------------------------------------
(* deprettify on a text and on the same text indented further *)

\* What follows the indent of a line: nothing, an item and the two markers.
ShiftBodies == {<<>>, <<"a">>, <<">", "|">>, <<"|">>}

ShiftLineSet == {repeat(SP, i) \o b : i \in 0..MaxIndent, b \in ShiftBodies}

\* The text with k spaces put before every non-empty line.
Shift(t, k) ==
  LET ls == split_lines(t, 1, <<>>)
  IN  JoinLines([j \in 1..Len(ls) |->
                   IF ls[j] = <<>> THEN ls[j] ELSE repeat(SP, k) \o ls[j]])

\* let depretty = deprettify(&s)
DeprettifyWhole ==
  /\ pc = "start"
  /\ depretty' = deprettify(s)
  /\ pc' = "whole"
  /\ UNCHANGED <<probeVars, serdeVars, s, test, sep, protected, unprotected, iter,
                 items, last, nones, once, arg, dp, pretty>>

\* let shifted = deprettify(&text) for the text indented by k more spaces
DeprettifyShifted ==
  /\ pc = "whole"
  /\ \E k \in 1..MaxShift : shifted' = [k |-> k, result |-> deprettify(Shift(s, k))]
  /\ pc' = "shifted"
  /\ UNCHANGED <<balanced, range, serdeVars, s, test, sep, protected, unprotected,
                 iter, items, last, nones, once, arg, dp, pretty, depretty>>

InitShift ==
  /\ \E n \in 1..MaxLines : \E ls \in [1..n -> ShiftLineSet] : s = JoinLines(ls)
  /\ sep = ","
  /\ test = ProtectTestChar(",")
  /\ value = <<>>
  /\ InitCommon

NextShift == DeprettifyWhole \/ DeprettifyShifted

SpecShift == InitShift /\ [][NextShift]_vars

----------------------------------------------------------------------------
(* unprotect and is_balanced on arbitrary input *)

\* Characters of the inputs: braces, the balancer characters and a two-byte
\* character as ordinary text.
ProbeChars == {"{", "}", "<", ">", Wide}

\* let unprotected = unprotect(s)
UnprotectRaw ==
  /\ pc = "start"
  /\ unprotected' = unprotect(s)
  /\ range' = IF starts_with(s, "{") /\ ends_with(s, "}")
              THEN unprotect_range(s) ELSE <<0, str_len(s)>>
  /\ pc' = "unprotected_raw"
  /\ UNCHANGED <<balanced, shifted, serdeVars, s, test, sep, protected, iter, items, last,
                 nones, once, arg, dp, pretty, depretty>>

\* let balanced = is_balanced(s)
IsBalanced ==
  /\ pc = "start"
  /\ balanced' = is_balanced(s)
  /\ pc' = "balanced"
  /\ UNCHANGED <<range, shifted, serdeVars, s, test, sep, protected, unprotected, iter,
                 items, last, nones, once, arg, dp, pretty, depretty>>

InitProbe ==
  /\ s \in StringsOf(ProbeChars, MaxProbeLen)
  /\ sep = ","
  /\ test = ProtectTestFalse
  /\ value = <<>>
  /\ InitCommon

NextProbe == UnprotectRaw \/ IsBalanced

SpecProbe == InitProbe /\ [][NextProbe]_vars

----------------------------------------------------------------------------
(* Sequences: SerializeSeq and DeserializeSequence *)

serdeVars_but_mapvalue == <<value, ser, decoded>>

\* The variables the serializer and the deserializer leave alone.
utilVars == <<test, sep, protected, unprotected, items, last, nones, arg, dp,
              pretty, depretty>>

\* Variant of protect_comma_or_empty without the case of the empty string.
protect_comma(t) == protect(t, ProtectTestChar(","))

protect_comma_or_empty(t) ==
  IF t = <<>> THEN <<"{", "}">> ELSE protect(t, ProtectTestChar(","))

ItemChars == {"{", "}", ",", "<", ">"}

\* serialize_seq: SerializeSequence { n: 0, output: String::new() }
SerializeSeq ==
  /\ pc = "start"
  /\ ser' = [n |-> 0, output |-> <<>>]
  /\ pc' = "ser_seq"
  /\ UNCHANGED <<probeVars, utilVars, value, decoded, mapvalue, s, iter, once>>

\* SerializeSeq::serialize_element for the next element of the list
SerializeElement ==
  /\ pc = "ser_seq"
  /\ ser.n < Len(value)
  /\ ser' = [n      |-> ser.n + 1,
             output |-> ser.output \o (IF ser.n # 0 THEN <<",">> ELSE <<>>)
                          \o protect_comma_or_empty(value[ser.n + 1])]
  /\ UNCHANGED <<probeVars, utilVars, value, decoded, mapvalue, s, iter, once, pc>>

\* SerializeSeq::end: the output is the encoded text
SerializeSeqEnd ==
  /\ pc = "ser_seq"
  /\ ser.n = Len(value)
  /\ s' = ser.output
  /\ pc' = "seq"
  /\ UNCHANGED <<probeVars, utilVars, value, ser, decoded, mapvalue, iter, once>>

\* deserialize_seq up to visit_seq: let mut iter = util::safesplit(input, ',')
DeserializeSeq ==
  /\ pc = "seq"
  /\ iter' = safesplit(s, ",")
  /\ pc' = "visit_seq"
  /\ UNCHANGED <<probeVars, utilVars, value, ser, decoded, mapvalue, s, once>>

\* DeserializeSequence::next_element_seed, called until it returns None
NextElementSeed ==
  /\ pc = "visit_seq"
  /\ \E res \in {SafesplitIter_next(iter)} :
         /\ iter' = res.it
         /\ decoded' = IF res.kind = "Some"
                       THEN Append(decoded, unprotect(res.item)) ELSE decoded
         /\ pc' = CASE res.kind = "Some" -> pc
                    [] res.kind = "None" -> "visited_seq"
                    [] OTHER -> "aborted"
  /\ UNCHANGED <<probeVars, utilVars, value, ser, mapvalue, s, once>>

\* deserialize_seq after visit_seq: match iter.next()
DeserializeSeqEnd ==
  /\ pc = "visited_seq"
  /\ \E res \in {SafesplitIter_next(iter)} :
         /\ iter' = res.it
         /\ pc' = CASE res.kind = "None" -> "decoded_seq"
                    [] res.kind = "Some" -> "TooManyElements"
                    [] OTHER -> "aborted"
  /\ UNCHANGED <<probeVars, utilVars, value, ser, decoded, mapvalue, s, once>>

InitSeq ==
  /\ \E n \in 0..MaxItems : value \in ListsOf(ItemChars, n, MaxSeqLen)
  /\ s = <<>>
  /\ sep = ","
  /\ test = ProtectTestChar(",")
  /\ InitCommon

NextSeq ==
  \/ SerializeSeq
  \/ SerializeElement
  \/ SerializeSeqEnd
  \/ DeserializeSeq
  \/ NextElementSeed
  \/ DeserializeSeqEnd

SpecSeq == InitSeq /\ [][NextSeq]_vars

----------------------------------------------------------------------------
(* Mappings: SerializeMap and DeserializeMap *)

PairChars == {"{", "}", ",", "="}

\* The mappings of n (key, value) pairs that hold at most `total` characters
\* altogether.
MapsOf(n, total) ==
  {[k \in 1..n |-> <<l[2 * k - 1], l[2 * k]>>] : l \in ListsOf(PairChars, 2 * n, total)}

\* serialize_map: SerializeSequence { n: 0, output: String::new() }
SerializeMap ==
  /\ pc = "start"
  /\ ser' = [n |-> 0, output |-> <<>>]
  /\ pc' = "ser_map"
  /\ UNCHANGED <<probeVars, utilVars, value, decoded, mapvalue, s, iter, once>>

\* SerializeMap::serialize_key for the next pair
SerializeKey ==
  /\ pc = "ser_map"
  /\ ser.n < Len(value)
  /\ ser' = [n      |-> ser.n + 1,
             output |-> ser.output \o (IF ser.n # 0 THEN <<",">> ELSE <<>>)
                          \o protect(value[ser.n + 1][1], ProtectTestPair(",", "="))
                          \o <<"=">>]
  /\ pc' = "ser_value"
  /\ UNCHANGED <<probeVars, utilVars, value, decoded, mapvalue, s, iter, once>>

\* SerializeMap::serialize_value for the same pair
SerializeValue ==
  /\ pc = "ser_value"
  /\ ser' = [ser EXCEPT !.output = ser.output \o protect(value[ser.n][2], ProtectTestChar(","))]
  /\ pc' = "ser_map"
  /\ UNCHANGED <<probeVars, utilVars, value, decoded, mapvalue, s, iter, once>>

\* SerializeMap::end
SerializeMapEnd ==
  /\ pc = "ser_map"
  /\ ser.n = Len(value)
  /\ s' = ser.output
  /\ pc' = "map"
  /\ UNCHANGED <<probeVars, utilVars, value, ser, decoded, mapvalue, iter, once>>

\* deserialize_map up to visit_map: DeserializeMap { iter, value: None }
DeserializeMap ==
  /\ pc = "map"
  /\ iter' = safesplit(s, ",")
  /\ mapvalue' = NoValue
  /\ pc' = "visit_map"
  /\ UNCHANGED <<probeVars, utilVars, value, ser, decoded, s, once>>

\* DeserializeMap::next_key_seed
NextKeySeed ==
  /\ pc = "visit_map"
  /\ \E res \in {SafesplitIter_next(iter)} :
       /\ iter' = res.it
       /\ IF res.kind = "Some"
          THEN \E kv \in {safesplit_once(res.item, "=")} :
                 /\ once' = kv
                 /\ IF kv.tag = "Ok"
                    THEN /\ mapvalue' = [some |-> TRUE, s |-> kv.b]
                         /\ decoded' = Append(decoded, <<unprotect(kv.a)>>)
                         /\ pc' = "visit_value"
                    ELSE /\ pc' = IF kv.tag = "Panic" THEN "aborted" ELSE "visit_failed"
                         /\ UNCHANGED <<mapvalue, decoded>>
          ELSE /\ pc' = IF res.kind = "None" THEN "visited_map" ELSE "aborted"
               /\ UNCHANGED <<once, mapvalue, decoded>>
  /\ UNCHANGED <<probeVars, utilVars, value, ser, s>>

\* DeserializeMap::next_value_seed
NextValueSeed ==
  /\ pc = "visit_value"
  /\ IF mapvalue.some
     THEN /\ decoded' = [decoded EXCEPT ![Len(decoded)] = Append(@, unprotect(mapvalue.s))]
          /\ mapvalue' = NoValue
          /\ pc' = "visit_map"
     ELSE /\ pc' = "aborted"
          /\ UNCHANGED <<decoded, mapvalue>>
  /\ UNCHANGED <<probeVars, utilVars, value, ser, s, iter, once>>

\* deserialize_map after visit_map has returned, with Ok ("visited_map") or
\* with Err(NotAKeyValuePair) ("visit_failed"): match iter.next()
DeserializeMapEnd ==
  /\ pc \in {"visited_map", "visit_failed"}
  /\ \E res \in {SafesplitIter_next(iter)} :
         /\ iter' = res.it
         /\ pc' = CASE res.kind = "None" ->
                         (IF pc = "visited_map" THEN "decoded_map" ELSE "NotAKeyValuePair")
                    [] res.kind = "Some" -> "TooManyElements"
                    [] OTHER -> "aborted"
  /\ UNCHANGED <<probeVars, utilVars, value, ser, decoded, mapvalue, s, once>>

InitMap ==
  /\ \E n \in 0..MaxPairs : value \in MapsOf(n, MaxMapLen)
  /\ s = <<>>
  /\ sep = ","
  /\ test = ProtectTestPair(",", "=")
  /\ InitCommon

NextMap ==
  \/ SerializeMap
  \/ SerializeKey
  \/ SerializeValue
  \/ SerializeMapEnd
  \/ DeserializeMap
  \/ NextKeySeed
  \/ NextValueSeed
  \/ DeserializeMapEnd

SpecMap == InitMap /\ [][NextMap]_vars

----------------------------------------------------------------------------
(* Tuples: deserialize_tuple / deserialize_tuple_struct *)

TupleChars == {"1", "a", ",", "{", "}"}

TOk(xs) == [tag |-> "Ok", elems |-> xs]
TErr(e) == [tag |-> e, elems |-> <<>>]

Digits == <<"0", "1", "2", "3", "4", "5", "6", "7", "8", "9">>

IsDigit(c) == \E d \in 1..10 : Digits[d] = c

DigitValue(c) == (CHOOSE d \in 1..10 : Digits[d] = c) - 1

\* The decimal value of a string of digits.
RECURSIVE digits_value(_, _)
digits_value(t, acc) ==
  IF t = <<>> THEN acc ELSE digits_value(Tail(t), 10 * acc + DigitValue(Head(t)))

\* The digits without their leading zeros (one digit is always kept).
RECURSIVE strip_zeros(_)
strip_zeros(ds) ==
  IF Len(ds) > 1 /\ ds[1] = "0" THEN strip_zeros(Tail(ds)) ELSE ds

\* self.input.parse::<i32>(): an optional sign and at least one digit, within
\* the range of i32 (-2147483648 ..= 2147483647).
parse_i32(t) ==
  LET signed == t # <<>> /\ t[1] \in {"+", "-"}
      neg    == signed /\ t[1] = "-"
      ds     == IF signed THEN Tail(t) ELSE t
  IN  IF ds = <<>> \/ \E k \in 1..Len(ds) : ~IsDigit(ds[k]) THEN TErr("NotAnInteger")
      ELSE LET sig == strip_zeros(ds)
           IN  IF Len(sig) <= 9
               THEN TOk(<<IF neg THEN -digits_value(sig, 0) ELSE digits_value(sig, 0)>>)
               ELSE IF Len(sig) > 10 THEN TErr("NotAnInteger")
               ELSE LET high == digits_value(SubSeq(sig, 1, 9), 0)
                        low  == DigitValue(sig[10])
                    IN  IF high > 214748364
                           \/ (high = 214748364 /\ low > (IF neg THEN 8 ELSE 7))
                        THEN TErr("NotAnInteger")
                        ELSE TOk(<<IF neg THEN (-10 * high) - low ELSE 10 * high + low>>)

\* T::deserialize(Deserializer::from_str(input)) for T = String and T = i32.
deserialize_element(ty, input) ==
  IF ty = "i32" THEN parse_i32(input) ELSE TOk(<<input>>)

\* visit_seq of the visitor of a tuple with n elements still to read: one
\* next_element_seed per element, stopping at the first error or None.
RECURSIVE visit_tuple(_, _, _, _)
visit_tuple(it, n, ty, acc) ==
  IF n = 0 THEN [it |-> it, v |-> TOk(acc)]
  ELSE LET res == SafesplitIter_next(it)
       IN  IF res.kind = "None" THEN [it |-> res.it, v |-> TErr("Message")]
           ELSE IF res.kind = "Panic" THEN [it |-> res.it, v |-> TErr("Panic")]
           ELSE LET e == deserialize_element(ty, unprotect(res.item))
                IN  IF e.tag # "Ok" THEN [it |-> res.it, v |-> e]
                    ELSE visit_tuple(res.it, n - 1, ty, acc \o e.elems)

\* Variant of deserialize_tuple that returns the visitor's result.
deserialize_tuple_unchecked(input, n, ty) ==
  LET r == visit_tuple(safesplit(input, ","), n, ty, <<>>)
  IN  [it |-> r.it, v |-> r.v, result |-> r.v]

\* deserialize_tuple and deserialize_tuple_struct: visit_seq, then
\* `match iter.next()`.
deserialize_tuple(input, n, ty) ==
  LET r   == visit_tuple(safesplit(input, ","), n, ty, <<>>)
      res == SafesplitIter_next(r.it)
  IN  [it     |-> res.it,
       v      |-> r.v,
       result |-> IF r.v.tag = "Panic" \/ res.kind = "Panic" THEN TErr("Panic")
                  ELSE IF res.kind = "None" THEN r.v
                  ELSE TErr("TooManyElements")]

\* from_str::<(T, ..)>(&s) for a tuple of n elements of type ty
DeserializeTuple ==
  /\ pc = "start"
  /\ \E n \in 1..MaxArity, ty \in {"String", "i32"} :
       \E r \in {deserialize_tuple(s, n, ty)} :
          /\ iter' = r.it
          /\ decoded' = [len |-> n, ty |-> ty, v |-> r.v, result |-> r.result]
  /\ pc' = "tuple"
  /\ UNCHANGED <<probeVars, utilVars, value, ser, mapvalue, s, once>>

\* The same for a sequence read to its end (Vec<T>): deserialize_seq
DeserializeVec ==
  /\ pc = "start"
  /\ iter' = safesplit(s, ",")
  /\ decoded' = <<>>
  /\ pc' = "visit_seq"
  /\ UNCHANGED <<probeVars, utilVars, value, ser, mapvalue, s, once>>

InitTuple ==
  /\ s \in StringsOf(TupleChars, MaxLen)
  /\ sep = ","
  /\ test = ProtectTestChar(",")
  /\ value = <<>>
  /\ InitCommon

NextTuple == DeserializeTuple \/ DeserializeVec \/ NextElementSeed \/ DeserializeSeqEnd

SpecTuple == InitTuple /\ [][NextTuple]_vars

----------------------------------------------------------------------------
(* DeserializeMap called in any order *)

AccessChars == {"a", "1", "=", ",", "{"}

\* The types the seeds of the visitor deserialize.
SeedTypes == {"String", "i32"}

\* What a call returns for the result e of seed.deserialize.
SeedKind(e) == IF e.tag = "Ok" THEN "Some" ELSE e.tag

\* DeserializeMap::next_value_seed on self.value == v with a seed of type
\* ty: self.value afterwards and what the call returns.
next_value_seed(v, ty) ==
  IF v.some
  THEN LET e == deserialize_element(ty, unprotect(v.s))
       IN  [value |-> NoValue, kind |-> SeedKind(e), out |-> e.elems]
  ELSE [value |-> v, kind |-> "Panic", out |-> <<>>]

\* deserialize_map: DeserializeMap { iter: &mut iter, value: None }
VisitMap ==
  /\ pc = "start"
  /\ iter' = safesplit(s, ",")
  /\ mapvalue' = NoValue
  /\ pc' = "access"
  /\ UNCHANGED <<probeVars, utilVars, value, ser, decoded, s, once>>

\* A call of next_key_seed by the visitor with a seed of type ty; `items`
\* records the calls.  self.value is set as soon as the item is split, before
\* the key is deserialized.
CallNextKey ==
  /\ pc = "access"
  /\ Len(items) < MaxCalls
  /\ \E ty \in SeedTypes :
      \E res \in {SafesplitIter_next(iter)} :
       /\ iter' = res.it
       /\ IF res.kind = "Some"
          THEN \E kv \in {safesplit_once(res.item, "=")} :
                 /\ once' = kv
                 /\ IF kv.tag = "Ok"
                    THEN \E e \in {deserialize_element(ty, unprotect(kv.a))} :
                           /\ mapvalue' = [some |-> TRUE, s |-> kv.b]
                           /\ items' = Append(items, [call |-> "key", ty |-> ty,
                                                      kind |-> SeedKind(e),
                                                      item |-> res.item, out |-> e.elems])
                           /\ pc' = pc
                    ELSE /\ items' = Append(items, [call |-> "key", ty |-> ty,
                                                    kind |-> IF kv.tag = "Panic" THEN "Panic"
                                                             ELSE "NotAKeyValuePair",
                                                    item |-> res.item, out |-> <<>>])
                         /\ pc' = IF kv.tag = "Panic" THEN "aborted" ELSE pc
                         /\ UNCHANGED mapvalue
          ELSE /\ items' = Append(items, [call |-> "key", ty |-> ty, kind |-> res.kind,
                                          item |-> <<>>, out |-> <<>>])
               /\ pc' = IF res.kind = "Panic" THEN "aborted" ELSE pc
               /\ UNCHANGED <<once, mapvalue>>
  /\ UNCHANGED <<probeVars, serdeVars_but_mapvalue, test, sep, protected, unprotected,
                 last, nones, arg, dp, pretty, depretty, s>>

\* A call of next_value_seed by the visitor with a seed of type ty.
CallNextValue ==
  /\ pc = "access"
  /\ Len(items) < MaxCalls
  /\ \E ty \in SeedTypes :
      \E res \in {next_value_seed(mapvalue, ty)} :
       /\ mapvalue' = res.value
       /\ items' = Append(items, [call |-> "value", ty |-> ty, kind |-> res.kind,
                                  item |-> <<>>, out |-> res.out])
       /\ pc' = IF res.kind = "Panic" THEN "aborted" ELSE pc
  /\ UNCHANGED <<probeVars, serdeVars_but_mapvalue, test, sep, protected, unprotected,
                 last, nones, arg, dp, pretty, depretty, s, iter, once>>

InitAccess ==
  /\ s \in StringsOf(AccessChars, MaxAccessLen)
  /\ sep = ","
  /\ test = ProtectTestPair(",", "=")
  /\ value = <<>>
  /\ InitCommon

NextAccess == VisitMap \/ CallNextKey \/ CallNextValue

SpecAccess == InitAccess /\ [][NextAccess]_vars

----------------------------------------------------------------------------
(* Options: serialize_none, serialize_some and deserialize_option *)

OptNone == [some |-> FALSE, s |-> <<>>]
OptSome(t) == [some |-> TRUE, s |-> t]

serialize_none == <<>>

\* Variant of serialize_some that returns the string as it is.
serialize_some_plain(t) == t

\* serialize_some of a string (serialize_str returns it unchanged).
serialize_some(t) ==
  IF (starts_with(t, "{") /\ ends_with(t, "}")) \/ t = <<>>
  THEN protect_unconditionally(t)
  ELSE t

deserialize_option(input) ==
  IF str_len(input) = 0 THEN OptNone ELSE OptSome(unprotect(input))

\* None.serialize(Serializer)
SerializeNone ==
  /\ pc = "start"
  /\ ~value.some
  /\ s' = serialize_none
  /\ pc' = "option"
  /\ UNCHANGED <<probeVars, utilVars, value, ser, decoded, mapvalue, iter, once>>

\* Some(value.s).serialize(Serializer)
SerializeSome ==
  /\ pc = "start"
  /\ value.some
  /\ s' = serialize_some(value.s)
  /\ pc' = "option"
  /\ UNCHANGED <<probeVars, utilVars, value, ser, decoded, mapvalue, iter, once>>

\* Option::<String>::deserialize(Deserializer::from_str(&s))
DeserializeOption ==
  /\ pc = "option"
  /\ decoded' = deserialize_option(s)
  /\ pc' = "decoded_option"
  /\ UNCHANGED <<probeVars, utilVars, value, ser, mapvalue, s, iter, once>>

InitOption ==
  /\ value \in {OptNone} \cup {OptSome(t) : t \in StringsOf(ProtectChars, MaxLen)}
  /\ s = <<>>
  /\ sep = ","
  /\ test = ProtectTestTrue
  /\ InitCommon

NextOption == SerializeNone \/ SerializeSome \/ DeserializeOption

SpecOption == InitOption /\ [][NextOption]_vars

----------------------------------------------------------------------------
(* Reference notions used by the properties *)

Braces == {"{", "}"}

\* Nesting level after the first k characters of t.
Level(t, k) ==
  Cardinality({j \in 1..k : t[j] = "{"}) - Cardinality({j \in 1..k : t[j] = "}"})

Balanced(t) == Level(t, Len(t)) = 0 /\ \A k \in 0..Len(t) : Level(t, k) >= 0

\* Positions of the occurrences of c met at nesting level 0.
Cuts(t, c) == {k \in 1..Len(t) : t[k] = c /\ Level(t, k - 1) = 0}

\* The j-th smallest element of a set of positions; 0 and bound at the ends.
CutAt(K, j, bound) ==
  IF j = 0 THEN 0
  ELSE IF j > Cardinality(K) THEN bound
  ELSE CHOOSE k \in K : Cardinality({m \in K : m < k}) = j - 1

\* t cut at every level-0 occurrence of c.
SplitList(t, c) ==
  IF t = <<>> THEN <<>>
  ELSE LET K == Cuts(t, c)
       IN  [j \in 1..(Cardinality(K) + 1) |->
              SubSeq(t, CutAt(K, j - 1, Len(t) + 1) + 1, CutAt(K, j, Len(t) + 1) - 1)]

\* p is t enclosed in an added outer brace pair (with or without balancers).
Enclosed(p, t) ==
  /\ Len(p) >= Len(t) + 2
  /\ p[1] = "{"
  /\ p[Len(p)] = "}"
  /\ \E k \in 1..(Len(p) - Len(t) - 1) : SubSeq(p, k + 1, k + Len(t)) = t

HasChar(t, c) == \E k \in 1..Len(t) : t[k] = c

FirstOf(t, c) == CHOOSE k \in 1..Len(t) : t[k] = c /\ \A j \in 1..(k - 1) : t[j] # c

----------------------------------------------------------------------------
(* Properties *)

\* C1: round trip, unprotect(protect(s, p)) = s for every string s and every
\* protection test p.
C1_RoundTrip == pc = "unprotected" => unprotected = s

C1_Witness ==
  /\ pc = "unprotected"
  /\ s = <<"<", "}", "}", ">">>
  /\ test.UNCONDITIONAL
  /\ protected # s
  /\ unprotected = s

\* A flat encoding the serializer can produce: every item of its split on
\* ',' is the protection of some string, hence of its own unprotection.
Producible(t) ==
  LET c == collect(safesplit(t, ","), <<>>)
  IN  c.ok /\ \A k \in 1..Len(c.items) :
                 protect(unprotect(c.items[k]), ProtectTestChar(",")) = c.items[k]

\* C2: deprettify(prettify(f)) = Ok(f) for every flat encoding f that is a
\* comma-joined sequence of items produced by protect(item, ',').
C2_Inverse ==
  (pc = "deprettified" /\ Producible(s)) => depretty = DOk(s)

\* C3: a protected token is atomic under splitting: for a separator that is
\* not a brace, the split of protect(s, sep) never aborts and yields the one
\* item protect(s, sep) when s is non-empty; for the empty s protect returns
\* the empty string and the split yields no item.
C3_Atomic ==
  (pc = "iter" /\ test.kind = "char" /\ sep \notin Braces) =>
     /\ last # "Panic"
     /\ s = <<>> => (protected = <<>> /\ items = <<>>)
     /\ (s # <<>> /\ last = "None") => items = <<protected>>
     /\ Len(items) <= 1

C3_Witness ==
  /\ pc = "iter"
  /\ last = "None"
  /\ sep = ","
  /\ Cuts(s, ",") # {}
  /\ Balanced(s)
  /\ items = <<protected>>

\* C4: the output of protect is always balanced: its level is never below 0
\* at any prefix and is 0 at the end, wrapped or not.
C4_Balance ==
  pc \in {"protected", "unprotected", "iter"} =>
     is_balanced(protected) /\ Balanced(protected)

C4_Witness ==
  /\ pc = "protected"
  /\ ~Balanced(s)
  /\ Level(s, Len(s)) = 0
  /\ Balanced(protected)

\* The three reasons for wrapping, with the predicate applied to every
\* character met at level 0 (braces included).
WrapNeeded(t, T) ==
  \/ starts_with(t, "{") /\ ends_with(t, "}")
  \/ \E k \in 1..Len(t) : Level(t, k - 1) = 0 /\ test_test(T, t[k])
  \/ ~Balanced(t)

\* The same with the predicate applied to the non-brace characters only.
WrapNeededNonBrace(t, T) ==
  \/ starts_with(t, "{") /\ ends_with(t, "}")
  \/ \E k \in 1..Len(t) : t[k] \notin Braces /\ Level(t, k - 1) = 0 /\ test_test(T, t[k])
  \/ ~Balanced(t)

\* C5 as stated: wrapped iff s looks like {...}, or the predicate holds for
\* some character at level 0, or s is unbalanced; s itself otherwise.
C5_Original ==
  pc = "protected" =>
     IF test.UNCONDITIONAL THEN Enclosed(protected, s)
     ELSE /\ Enclosed(protected, s) <=> WrapNeeded(s, test)
          /\ ~WrapNeeded(s, test) => protected = s

\* C5 (amended): the same, where only a character that is not a brace counts
\* as a level-0 character for which the predicate holds.
C5_WrapDecision ==
  pc = "protected" =>
     IF test.UNCONDITIONAL THEN Enclosed(protected, s)
     ELSE /\ Enclosed(protected, s) <=> WrapNeededNonBrace(s, test)
          /\ ~WrapNeededNonBrace(s, test) => protected = s

C5_Witness ==
  /\ pc = "protected"
  /\ test = ProtectTestChar("{")
  /\ HasChar(s, "{")
  /\ ~starts_with(s, "{")
  /\ Balanced(s)
  /\ protected = s

\* C6: safesplit yields no item for the empty string and otherwise s cut at
\* every separator met at level 0: k cuts give k + 1 items, in order.
C6_SplitList ==
  (pc = "iter" /\ iter.s = s) =>
     /\ last # "Panic"
     /\ last = "None" => items = SplitList(s, sep)

\* C7: safesplit splits on a scalar value: every call of next returns a valid
\* slice, the cursor stays on a character boundary just past a separator, and
\* the items are the substrings between the level-0 separators.
C7_Unicode ==
  (pc = "iter" /\ iter.s = s) =>
     /\ last # "Panic"
     /\ is_char_boundary(s, iter.i)
     /\ iter.i > 0 => ends_with(slice(s, 0, iter.i), sep)
     /\ last = "None" => items = SplitList(s, sep)

\* C8: safesplit_once returns the text before and after the first separator
\* met at level 0, and SeparatorNotFound exactly when there is none.
C8_SplitOnce ==
  pc = "once" =>
     IF Cuts(s, sep) = {}
     THEN once.tag = "SeparatorNotFound"
     ELSE LET k == CutAt(Cuts(s, sep), 1, 0)
          IN  /\ once.tag = "Ok"
              /\ once.a = SubSeq(s, 1, k - 1)
              /\ once.b = SubSeq(s, k + 1, Len(s))
              /\ once.a \o <<sep>> \o once.b = s
              /\ Cuts(once.a, sep) = {}

C8_Witness ==
  /\ pc = "once"
  /\ sep = Wide
  /\ once.tag = "Ok"
  /\ HasChar(once.a, "{")
  /\ HasChar(once.b, Wide)

\* C9: splitarg fails with NotAnEnum exactly when s is unbalanced, or has a
\* '{' but does not end with '}', or starts with '{'; otherwise it returns
\* (s, "") when s has no '{' and (tag, unprotect(rest)) split at the first
\* '{', and the tag has no brace.
C9_Splitarg ==
  pc = "arg" =>
     LET bad == \/ ~Balanced(s)
                \/ HasChar(s, "{") /\ ~ends_with(s, "}")
                \/ starts_with(s, "{")
     IN  /\ arg.tag = (IF bad THEN "NotAnEnum" ELSE "Ok")
         /\ (~bad /\ ~HasChar(s, "{")) => (arg.a = s /\ arg.b = <<>>)
         /\ (~bad /\ HasChar(s, "{")) =>
               LET k == FirstOf(s, "{")
               IN  /\ arg.a = SubSeq(s, 1, k - 1)
                   /\ arg.b = unprotect(SubSeq(s, k, Len(s)))
         /\ ~bad => \A k \in 1..Len(arg.a) : arg.a[k] \notin Braces

C9_Witness ==
  /\ pc = "arg"
  /\ arg.tag = "Ok"
  /\ arg.a # <<>>
  /\ arg.b # <<>>
  /\ HasChar(s, "{")

\* C10 as documented: splitarg fails only if s has a '{' but does not end
\* with '}', and succeeds on every other input.
C10_Original ==
  pc = "arg" => (arg.tag # "Ok" <=> (HasChar(s, "{") /\ ~ends_with(s, "}")))

\* C10 (amended): splitarg fails whenever s has a '{' but does not end with
\* '}'; among the balanced inputs that do not start with '{' it fails only
\* then and succeeds otherwise.
C10_ErrIfOpenEnd ==
  pc = "arg" =>
     /\ (HasChar(s, "{") /\ ~ends_with(s, "}")) => arg.tag = "NotAnEnum"
     /\ (Balanced(s) /\ ~starts_with(s, "{")) =>
           (arg.tag = "Ok" <=> ~(HasChar(s, "{") /\ ~ends_with(s, "}")))

C10_Witness ==
  /\ pc = "arg"
  /\ Balanced(s)
  /\ ~starts_with(s, "{")
  /\ HasChar(s, "{")
  /\ ~ends_with(s, "}")
  /\ arg.tag = "NotAnEnum"

\* C11 as stated: splitarg inverts the tag construction for every key
\* without a curly brace, the empty key included.
C11_Original ==
  /\ pc = "arg_tagged" => arg = Ok(s, value)
  /\ pc = "arg_unit" => arg = Ok(s, <<>>)

\* C11 (amended): for every non-empty key without a curly brace and every
\* value, splitarg(key + protect_unconditionally(value)) = Ok((key, value));
\* for every key without a curly brace, splitarg(key) = Ok((key, "")).
C11_TagInverse ==
  /\ (pc = "arg_tagged" /\ s # <<>>) => arg = Ok(s, value)
  /\ pc = "arg_unit" => arg = Ok(s, <<>>)

C11_Witness ==
  /\ pc = "arg_tagged"
  /\ HasChar(s, Wide)
  /\ ~Balanced(value)
  /\ arg = Ok(s, value)

\* Position of the '<' of a trailing marker '<' '}'* '>' of u, 0 if none.
TrailingMarker(u) ==
  LET J == {j \in 1..(Len(u) - 1) :
              /\ u[j] = "<"
              /\ u[Len(u)] = ">"
              /\ \A m \in (j + 1)..(Len(u) - 1) : u[m] = "}"}
  IN  IF J = {} THEN 0 ELSE CHOOSE j \in J : TRUE

\* Position of the '>' of a leading marker '<' '{'* '>' of u, 0 if none.
LeadingMarker(u) ==
  LET J == {j \in 2..Len(u) :
              /\ u[1] = "<"
              /\ u[j] = ">"
              /\ \A m \in 2..(j - 1) : u[m] = "{"}
  IN  IF J = {} THEN 0 ELSE CHOOSE j \in J : TRUE

\* The outer braces removed, then the trailing marker, then the leading one.
Stripped(t) ==
  LET inner == SubSeq(t, 2, Len(t) - 1)
      tm    == TrailingMarker(inner)
      mid   == IF tm > 0 THEN SubSeq(inner, 1, tm - 1) ELSE inner
      lm    == LeadingMarker(mid)
  IN  IF lm > 0 THEN SubSeq(mid, lm + 1, Len(mid)) ELSE mid

\* C12: unprotect returns s unchanged unless s starts with '{' and ends with
\* '}'; otherwise it removes the outer braces, then a trailing marker, then a
\* leading marker of what remains; the result is the sub-slice s[l..r] with
\* l <= r.
C12_Unprotect ==
  pc = "unprotected_raw" =>
     /\ unprotected # Panic
     /\ unprotected = (IF starts_with(s, "{") /\ ends_with(s, "}") THEN Stripped(s) ELSE s)
     /\ 0 <= range[1]
     /\ range[1] <= range[2]
     /\ range[2] <= str_len(s)
     /\ unprotected = slice(s, range[1], range[2])

C12_Witness ==
  /\ pc = "unprotected_raw"
  /\ starts_with(s, "{")
  /\ ends_with(s, "}")
  /\ range[1] > 1
  /\ range[2] < str_len(s) - 1
  /\ range[1] = range[2]

\* C13: is_balanced(s) is true iff the level is never below 0 at any prefix
\* of s and is 0 at the end.
C13_IsBalanced ==
  pc = "balanced" => balanced = Balanced(s)

C13_Witness ==
  /\ pc = "balanced"
  /\ balanced = FALSE
  /\ Level(s, Len(s)) = 0
  /\ HasChar(s, "{")

\* The number of leading spaces of a line.
Indent(line) ==
  Cardinality({k \in 1..Len(line) : \A m \in 1..k : line[m] = SP})

\* The line the loop of deprettify is about to read, when no level is open
\* yet and when one is.
AtLine == pc = "deprettify" /\ dp.n <= Len(dp.lines) /\ dp.lines[dp.n] # <<>>
AtLineInScope == AtLine /\ dp.indents # <<>>

\* C14: a non-empty line read by the loop whose indent is one space more than
\* the innermost open level fails with IndentTooSmall and the 1-based number
\* of the line; IndentTooSmall arises in no other way, and an increase of two
\* or more pushes the level and emits '{'.
C14_IndentTooSmall ==
  [][/\ AtLine =>
          (depretty'.tag = "IndentTooSmall" =>
             /\ dp.indents # <<>>
             /\ Indent(dp.lines[dp.n]) = dp.indents[Len(dp.indents)] + 1)
     /\ AtLineInScope =>
          LET indent == Indent(dp.lines[dp.n])
              top    == dp.indents[Len(dp.indents)]
          IN  /\ indent = top + 1 => depretty' = DErr("IndentTooSmall", dp.n)
              /\ indent >= top + 2 =>
                   /\ depretty'.tag # "IndentTooSmall"
                   /\ dp'.indents = Append(dp.indents, indent)
                   /\ Len(dp'.s) > Len(dp.s)
                   /\ SubSeq(dp'.s, 1, Len(dp.s) + 1) = Append(dp.s, "{")]_vars

C14_Witness ==
  /\ pc = "deprettified"
  /\ depretty = DErr("IndentTooSmall", 3)
  /\ Len(dp.indents) = 2
  /\ HasChar(dp.s, "{")

\* C15: a non-empty line read by the loop whose indent is not larger than the
\* innermost open level fails with UnmatchedUnindent and the 1-based number of
\* the line exactly when its indent is none of the open levels; otherwise the
\* levels above it are popped, one '}' is emitted for each, then ',' and the
\* content of the line.
C15_UnmatchedUnindent ==
  [][/\ AtLine =>
          (depretty'.tag = "UnmatchedUnindent" =>
             /\ dp.indents # <<>>
             /\ Indent(dp.lines[dp.n]) <= dp.indents[Len(dp.indents)]
             /\ \A j \in 1..Len(dp.indents) : dp.indents[j] # Indent(dp.lines[dp.n]))
     /\ (AtLineInScope /\ Indent(dp.lines[dp.n]) <= dp.indents[Len(dp.indents)]) =>
          LET line   == dp.lines[dp.n]
              indent == Indent(line)
              open   == \E j \in 1..Len(dp.indents) : dp.indents[j] = indent
              above  == Cardinality({j \in 1..Len(dp.indents) : dp.indents[j] > indent})
              closed == dp.s \o repeat("}", above) \o <<",">>
              marked == /\ Len(line) >= indent + 2
                        /\ line[indent + 1] = ">"
                        /\ line[indent + 2] = "|"
          IN  /\ ~open => depretty' = DErr("UnmatchedUnindent", dp.n)
              /\ open =>
                   /\ depretty'.tag # "UnmatchedUnindent"
                   /\ dp'.indents = SubSeq(dp.indents, 1, Len(dp.indents) - above)
                   /\ Len(dp'.s) >= Len(closed)
                   /\ SubSeq(dp'.s, 1, Len(closed)) = closed
                   /\ (depretty' = DUnset /\ ~marked) =>
                        dp'.s = closed \o SubSeq(line, indent + 1, Len(line))]_vars

C15_Witness ==
  /\ pc = "deprettified"
  /\ depretty = DErr("UnmatchedUnindent", 3)
  /\ dp.lines[2] # <<>>
  /\ Indent(dp.lines[2]) > Indent(dp.lines[3])
  /\ HasChar(dp.s, "}")

\* C16: prettify of the empty string is the empty string, and prettify of a
\* non-empty string ends with a newline.
C16_TrailingNewline ==
  pc \in {"prettified", "deprettify", "deprettified"} =>
     /\ s = <<>> => pretty = <<>>
     /\ s # <<>> => ends_with(pretty, NL)

\* C17: deprettify returns Ok, Err(IndentTooSmall) or Err(UnmatchedUnindent)
\* for every text, and never aborts.
C17_TypedResults ==
  /\ pc = "deprettify" => dp.result = DUnset
  /\ pc = "deprettified" => depretty.tag \in {"Ok", "IndentTooSmall", "UnmatchedUnindent"}

\* ','-join of a list of strings.
RECURSIVE JoinComma(_)
JoinComma(xs) ==
  IF xs = <<>> THEN <<>>
  ELSE IF Len(xs) = 1 THEN xs[1]
  ELSE xs[1] \o <<",">> \o JoinComma(Tail(xs))

\* C18: a list of strings encoded as the ','-join of its items, "{}" for an
\* empty item and protect(x, ',') otherwise, and decoded with safesplit on
\* ',' and unprotect of every item, is decoded to the same list; the empty
\* list is encoded as "" and decoded to no item.
C18_SeqRoundTrip ==
  /\ pc \notin {"aborted", "TooManyElements"}
  /\ pc \in {"seq", "visit_seq", "visited_seq", "decoded_seq"} =>
       /\ s = JoinComma([k \in 1..Len(value) |->
                           IF value[k] = <<>> THEN <<"{", "}">>
                           ELSE protect(value[k], ProtectTestChar(","))])
       /\ value = <<>> => s = <<>>
  /\ pc = "visit_seq" =>
       /\ Len(decoded) <= Len(value)
       /\ decoded = SubSeq(value, 1, Len(decoded))
  /\ pc \in {"visited_seq", "decoded_seq"} => decoded = value

C18_Witness ==
  /\ pc = "decoded_seq"
  /\ Len(value) = 2
  /\ value[1] = <<>>
  /\ HasChar(value[2], ",")
  /\ ~Balanced(value[2])
  /\ decoded = value

\* C19: a list of (key, value) pairs encoded as the ','-join of
\* protect(key, [',', '=']) + '=' + protect(value, ',') is decoded to the same
\* list by safesplit on ',', safesplit_once on '=' and unprotect of both
\* halves; the split on '=' is at the '=' the encoder wrote.
C19_MapRoundTrip ==
  /\ pc \notin {"aborted", "TooManyElements", "visit_failed", "NotAKeyValuePair"}
  /\ pc = "visit_value" =>
       /\ Len(decoded) <= Len(value)
       /\ once = Ok(protect(value[Len(decoded)][1], ProtectTestPair(",", "=")),
                    protect(value[Len(decoded)][2], ProtectTestChar(",")))
       /\ decoded[Len(decoded)] = <<value[Len(decoded)][1]>>
  /\ pc = "visit_map" =>
       /\ Len(decoded) <= Len(value)
       /\ decoded = SubSeq(value, 1, Len(decoded))
  /\ pc \in {"visited_map", "decoded_map"} => decoded = value

C19_Witness ==
  /\ pc = "decoded_map"
  /\ Len(value) = 2
  /\ HasChar(value[1][1], "=")
  /\ HasChar(value[1][2], "=")
  /\ HasChar(value[2][1], ",")
  /\ decoded = value

\* C20: None is encoded as ""; Some(s) is never encoded as "", and its
\* encoding is decoded to Some(s); None is decoded to None.
C20_Option ==
  /\ pc \in {"option", "decoded_option"} => (s = <<>> <=> ~value.some)
  /\ pc = "decoded_option" => decoded = value

C20_Witness ==
  /\ pc = "decoded_option"
  /\ value.some
  /\ starts_with(value.s, "{")
  /\ ends_with(value.s, "}")
  /\ ~Balanced(value.s)
  /\ decoded = value

\* The largest excess of closing over opening braces at a prefix of t,
\* floored at 0.
ExcessClosing(t) ==
  LET E == {0} \cup {-Level(t, k) : k \in 0..Len(t)}
  IN  CHOOSE e \in E : \A f \in E : f <= e

\* '{' + L + t + R + '}' with the balancers the claim describes.
WrappedShape(t) ==
  LET l == ExcessClosing(t)
      r == Level(t, Len(t)) + l
      L == IF l > 0 \/ LeadingMarker(t) > 0
           THEN <<"<">> \o [k \in 1..l |-> "{"] \o <<">">> ELSE <<>>
      R == IF r > 0 \/ TrailingMarker(t) > 0
           THEN <<"<">> \o [k \in 1..r |-> "}"] \o <<">">> ELSE <<>>
  IN  <<"{">> \o L \o t \o R \o <<"}">>

\* C21: when protect wraps s the output is '{' + L + s + R + '}', where L is
\* '<' + l times '{' + '>' if l > 0 or s starts with '<' '{'* '>' (empty
\* otherwise) and R is '<' + r times '}' + '>' if r > 0 or s ends with
\* '<' '}'* '>' (empty otherwise).
C21_WrappedShape ==
  (pc \in {"protected", "unprotected", "iter"} /\ protected # s) =>
     protected = WrappedShape(s)

C21_Witness ==
  /\ pc = "protected"
  /\ protected # s
  /\ ExcessClosing(s) > 0
  /\ Level(s, Len(s)) + ExcessClosing(s) = 0
  /\ TrailingMarker(s) > 0
  /\ protected = WrappedShape(s)

\* Concatenation of a list of strings.
RECURSIVE Concat(_)
Concat(xs) == IF xs = <<>> THEN <<>> ELSE Head(xs) \o Concat(Tail(xs))

\* The physical lines of t: t cut at every newline.
PhysicalLines(t) ==
  LET K == {k \in 1..Len(t) : t[k] = NL}
  IN  [j \in 1..(Cardinality(K) + 1) |->
         SubSeq(t, CutAt(K, j - 1, Len(t) + 1) + 1, CutAt(K, j, Len(t) + 1) - 1)]

\* The literal text needs an escaped block.
EscapeNeeded(lit) ==
  \/ lit = <<>>
  \/ lit[1] = SP
  \/ (Len(lit) >= 2 /\ lit[1] = ">" /\ lit[2] = "|")
  \/ HasChar(lit, NL)

\* The rendering of a literal text at an indent, without the final newline.
Literal(lit, indent) ==
  IF EscapeNeeded(lit)
  THEN LET ls == PhysicalLines(lit)
       IN  indent \o <<">", "|">> \o ls[1]
           \o Concat([j \in 1..(Len(ls) - 1) |-> <<NL>> \o indent \o <<SP, "|">> \o ls[j + 1]])
  ELSE indent \o lit

\* The item is a prefix followed by a scope.
HasScope(item) ==
  /\ HasChar(item, "{")
  /\ FirstOf(item, "{") > 1
  /\ item[Len(item)] = "}"
  /\ Balanced(SubSeq(item, FirstOf(item, "{") + 1, Len(item) - 1))

ScopePrefix(item) == SubSeq(item, 1, FirstOf(item, "{") - 1)

ScopeInterior(item) == SubSeq(item, FirstOf(item, "{") + 1, Len(item) - 1)

\* C22: every item of the split of s on level-0 ',' is rendered as the
\* literal text before its first '{' followed by the rendering of the
\* interior at indent + 2 exactly when that '{' is not at position 0, the
\* item ends with '}' and the interior is balanced; any other item is
\* rendered whole as literal text, with no nested block.
C22_ScopeDetection ==
  (pc \in {"prettified", "deprettify", "deprettified"} /\ s # <<>>) =>
     pretty = Concat([j \in 1..Len(SplitList(s, ",")) |->
                LET item == SplitList(s, ",")[j]
                IN  IF HasScope(item)
                    THEN Literal(ScopePrefix(item), <<>>) \o <<NL>>
                         \o prettify_scope(ScopeInterior(item), <<SP, SP>>)
                    ELSE Literal(item, <<>>) \o <<NL>>])

C22_Witness ==
  /\ pc = "prettified"
  /\ Len(SplitList(s, ",")) = 1
  /\ HasScope(s)
  /\ ScopeInterior(s) # <<>>
  /\ pretty = Literal(ScopePrefix(s), <<>>) \o <<NL>>
                \o Literal(ScopeInterior(s), <<SP, SP>>) \o <<NL>>

\* The items of a text without braces: the text cut at every ','.
CommaItems(t) ==
  LET K == {k \in 1..Len(t) : t[k] = ","}
  IN  [j \in 1..(Cardinality(K) + 1) |->
         SubSeq(t, CutAt(K, j - 1, Len(t) + 1) + 1, CutAt(K, j, Len(t) + 1) - 1)]

\* The rendering of the items of a text without braces at an indent, each
\* followed by a newline.
Literals(t, indent) ==
  Concat([j \in 1..Len(CommaItems(t)) |-> Literal(CommaItems(t)[j], indent) \o <<NL>>])

\* C23: a literal text is rendered as an escaped block (indent + '>|' + the
\* first physical line, then indent + ' |' + each further physical line) iff
\* it is empty, starts with a space, starts with '>|' or contains a newline;
\* otherwise it follows the indent verbatim.  Checked for every item, the
\* empty items included, of a text without braces at the top level and of
\* such a text inside the scope of "a{..}"; the empty scope of "a{}" is the
\* escaped block of the empty text.
C23_Escaping ==
  pc \in {"prettified", "deprettify", "deprettified"} =>
     /\ (s # <<>> /\ ~HasChar(s, "{") /\ ~HasChar(s, "}")) =>
          pretty = Literals(s, <<>>)
     /\ (HasScope(s) /\ ScopePrefix(s) = <<"a">>
           /\ ~HasChar(ScopeInterior(s), "{") /\ ~HasChar(ScopeInterior(s), "}")) =>
          IF ScopeInterior(s) # <<>>
          THEN pretty = <<"a", NL>> \o Literals(ScopeInterior(s), <<SP, SP>>)
          ELSE /\ Len(pretty) >= 6
               /\ SubSeq(pretty, 1, 6) = <<"a", NL>> \o Literal(<<>>, <<SP, SP>>)

C23_Witness ==
  /\ pc = "prettified"
  /\ Len(CommaItems(s)) = 2
  /\ CommaItems(s)[1] = <<>>
  /\ HasChar(CommaItems(s)[2], NL)
  /\ pretty = <<">", "|", NL, ">", "|", NL, SP, "|", NL>>

\* The line has the two-character marker m right after `indent` spaces.
MarkedAt(line, indent, m) ==
  /\ Len(line) >= indent + 2
  /\ \A k \in 1..indent : line[k] = SP
  /\ line[indent + 1] = m[1]
  /\ line[indent + 2] = m[2]

\* The first line after line n that is not a ' |' line at column `indent`.
BlockEnd(lines, n, indent) ==
  LET M == {m \in (n + 1)..(Len(lines) + 1) :
              m = Len(lines) + 1 \/ ~MarkedAt(lines[m], indent, <<SP, "|">>)}
  IN  CHOOSE m \in M : \A k \in M : m <= k

\* The content of the item that starts at line n.
ItemContent(lines, n) ==
  LET line   == lines[n]
      indent == Indent(line)
  IN  IF MarkedAt(line, indent, <<">", "|">>)
      THEN SubSeq(line, indent + 3, Len(line))
           \o Concat([j \in 1..(BlockEnd(lines, n, indent) - n - 1) |->
                        <<NL>> \o SubSeq(lines[n + j], indent + 3, Len(lines[n + j]))])
      ELSE SubSeq(line, indent + 1, Len(line))

\* The line the loop reads after the item that starts at line n.
ItemEnd(lines, n) ==
  IF MarkedAt(lines[n], Indent(lines[n]), <<">", "|">>)
  THEN BlockEnd(lines, n, Indent(lines[n]))
  ELSE n + 1

\* C24: a line read by the loop whose content starts with '>|' contributes
\* the rest of the line joined by newlines with the rest of every directly
\* following ' |' line at the same column, and the loop continues at the
\* first line that is not such a line; any other line contributes what
\* follows its indent.
C24_EscapedBlock ==
  [][(AtLine /\ depretty'.tag \notin {"IndentTooSmall", "UnmatchedUnindent"}) =>
       /\ depretty' = DUnset
       /\ dp'.n = ItemEnd(dp.lines, dp.n)
       /\ Len(dp'.s) >= Len(dp.s) + Len(ItemContent(dp.lines, dp.n))
       /\ SubSeq(dp'.s, Len(dp'.s) - Len(ItemContent(dp.lines, dp.n)) + 1, Len(dp'.s))
            = ItemContent(dp.lines, dp.n)]_vars

\* The statement of C24 restricted to the iterations that do not abort.
C24_NoAbort ==
  [][(AtLine /\ depretty' = DUnset) =>
       /\ dp'.n = ItemEnd(dp.lines, dp.n)
       /\ Len(dp'.s) >= Len(dp.s) + Len(ItemContent(dp.lines, dp.n))
       /\ SubSeq(dp'.s, Len(dp'.s) - Len(ItemContent(dp.lines, dp.n)) + 1, Len(dp'.s))
            = ItemContent(dp.lines, dp.n)]_vars

\* Number of occurrences of c in t.
Count(t, c) == Cardinality({k \in 1..Len(t) : t[k] = c})

\* C25: a line that is read without error inserts one '{' iff it opens a
\* level and one '}' for every level it pops, and never pops the base level;
\* the end of input inserts exactly one '}' for every level open beyond the
\* base, so that in an Ok result the inserted '{' and '}' are equal in
\* number; a text with no non-empty line gives Ok("").
C25_StructuralBraces ==
  [][/\ (AtLine /\ depretty' = DUnset) =>
          LET content == ItemContent(dp.lines, dp.n)
              opened  == Count(dp'.s, "{") - Count(dp.s, "{") - Count(content, "{")
              closed  == Count(dp'.s, "}") - Count(dp.s, "}") - Count(content, "}")
          IN  /\ dp'.indents # <<>>
              /\ dp.indents # <<>> => dp'.indents[1] = dp.indents[1]
              /\ opened = (IF dp.indents # <<>> /\ Len(dp'.indents) > Len(dp.indents)
                           THEN 1 ELSE 0)
              /\ closed = (IF Len(dp'.indents) < Len(dp.indents)
                           THEN Len(dp.indents) - Len(dp'.indents) ELSE 0)
     /\ (pc = "deprettify" /\ pc' = "deprettified" /\ depretty'.tag = "Ok") =>
          /\ depretty'.s = dp.s \o [k \in 1..(Len(dp.indents) - 1) |-> "}"]
          /\ Count(depretty'.s, "{") - Count(s, "{") = Count(depretty'.s, "}") - Count(s, "}")
          /\ (\A k \in 1..Len(dp.lines) : dp.lines[k] = <<>>) => depretty' = DOk(<<>>)]_vars

C25_Witness ==
  /\ pc = "deprettified"
  /\ depretty.tag = "Ok"
  /\ Len(dp.indents) = 2
  /\ HasChar(s, "}")
  /\ Count(depretty.s, "{") = 1
  /\ Count(depretty.s, "}") = 3

\* The non-empty lines among the first n lines.
NonEmptyBefore(lines, n) == {k \in 1..n : k <= Len(lines) /\ lines[k] # <<>>}

\* C26: while no error has occurred the stack of open indent levels is
\* strictly increasing with steps of at least 2, it is non-empty once a
\* non-empty line has been read, and its bottom entry is the indent of the
\* first non-empty line.
C26_IndentStack ==
  (pc = "deprettify" \/ (pc = "deprettified" /\ depretty.tag = "Ok")) =>
     /\ \A k \in 1..(Len(dp.indents) - 1) : dp.indents[k + 1] >= dp.indents[k] + 2
     /\ dp.indents # <<>> <=> NonEmptyBefore(dp.lines, dp.n - 1) # {}
     /\ dp.indents # <<>> =>
          LET N     == NonEmptyBefore(dp.lines, dp.n - 1)
              first == CHOOSE k \in N : \A j \in N : k <= j
          IN  dp.indents[1] = Indent(dp.lines[first])

C26_Witness ==
  /\ pc = "deprettify"
  /\ dp.n = 4
  /\ dp.indents = <<1>>
  /\ Indent(dp.lines[2]) = 3
  /\ Indent(dp.lines[3]) = 1

\* C27: deprettify gives the same result, the same Ok string or the same
\* error with the same line number, for a text and for the text with k
\* spaces put before every non-empty line.
C27_BaseIndent ==
  pc = "shifted" => shifted.result = depretty

C27_Witness ==
  /\ pc = "shifted"
  /\ shifted.k = 2
  /\ depretty.tag = "Ok"
  /\ HasChar(depretty.s, "{")
  /\ HasChar(depretty.s, NL)
  /\ shifted.result = depretty

\* A value is pending before call i: there is a key fetch before i that
\* returned a key, with no value fetch in between.
Pending(log, i) ==
  \E j \in 1..(i - 1) :
     /\ log[j].call = "key"
     /\ log[j].kind = "Some"
     /\ \A m \in (j + 1)..(i - 1) : log[m].call # "value"

\* The last key fetch before call i that returned a key.
LastKey(log, i) ==
  CHOOSE j \in 1..(i - 1) :
     /\ log[j].call = "key"
     /\ log[j].kind = "Some"
     /\ \A m \in (j + 1)..(i - 1) : ~(log[m].call = "key" /\ log[m].kind = "Some")

\* What follows the first level-0 '=' of an item.
ValueHalf(item) ==
  LET K == Cuts(item, "=")
  IN  SubSeq(item, CutAt(K, 1, Len(item) + 1) + 1, Len(item))

\* C28: next_value_seed hands a value to its seed exactly when a key has been
\* returned since the last value fetch, the value is that of the last key
\* returned, and it aborts otherwise: before any key, twice in a row, or when
\* the only key fetches since the last value fetch returned None or an error.
C28_KeyValueProtocol ==
  /\ \A i \in 1..Len(items) :
       items[i].call = "value" =>
          IF Pending(items, i)
          THEN LET e == deserialize_element(
                          items[i].ty, unprotect(ValueHalf(items[LastKey(items, i)].item)))
               IN  /\ items[i].kind = SeedKind(e)
                   /\ items[i].out = e.elems
          ELSE items[i].kind = "Panic"
  /\ pc = "access" => \A i \in 1..Len(items) : items[i].kind # "Panic"
  /\ pc = "aborted" =>
       /\ items[Len(items)].call = "value"
       /\ items[Len(items)].kind = "Panic"

\* The key fetch has split its item at '=': it returned a key or the error of
\* the key's seed.
HasSplit(c) == c.call = "key" /\ c.kind \notin {"None", "NotAKeyValuePair", "Panic"}

\* The last key fetch before call i that has split its item.
LastSplit(log, i) ==
  CHOOSE j \in 1..(i - 1) :
     /\ HasSplit(log[j])
     /\ \A m \in (j + 1)..(i - 1) : ~HasSplit(log[m])

\* A key fetch has split its item before call i, with no value fetch in
\* between.
SplitPending(log, i) ==
  \E j \in 1..(i - 1) :
     /\ HasSplit(log[j])
     /\ \A m \in (j + 1)..(i - 1) : log[m].call # "value"

\* What the calls do: the value handed to the seed is that of the last item a
\* key fetch has split, whether or not that fetch returned a key.
KeyValueProtocol_split ==
  /\ \A i \in 1..Len(items) :
       items[i].call = "value" =>
          IF SplitPending(items, i)
          THEN LET e == deserialize_element(
                          items[i].ty, unprotect(ValueHalf(items[LastSplit(items, i)].item)))
               IN  /\ items[i].kind = SeedKind(e)
                   /\ items[i].out = e.elems
          ELSE items[i].kind = "Panic"
  /\ pc = "access" =>
       /\ mapvalue.some <=> SplitPending(items, Len(items) + 1)
       /\ \A i \in 1..Len(items) : items[i].kind # "Panic"
  /\ pc = "aborted" =>
       /\ items[Len(items)].call = "value"
       /\ items[Len(items)].kind = "Panic"

\* C29: the calls of next on safesplit(s, sep) return at most len(s) + 1
\* items and then None, never abort, return None for ever once they have
\* returned None, never move the cursor backwards or beyond len(s), and the
\* item returned by the call that exhausts the iterator is the rest of s from
\* the cursor on.
C29_FiniteFused ==
  [][(pc' = "iter" /\ iter'.s = s) =>
       /\ last' # "Panic"
       /\ Len(items') <= str_len(s) + 1
       /\ iter'.i <= str_len(s)
       /\ pc = "iter" =>
            /\ iter'.i >= iter.i
            /\ last = "None" => (last' = "None" /\ items' = items)
            /\ (~iter.exhausted /\ iter'.exhausted) =>
                 /\ last' = "Some"
                 /\ items' = Append(items, slice(s, iter.i, str_len(s)))]_vars

\* The item is a well-formed element of the type.
WellFormed(item, ty) ==
  ty = "i32" => (unprotect(item) # <<>> /\ \A k \in 1..Len(unprotect(item)) : unprotect(item)[k] = "1")

\* C30: decoding a tuple of n elements from an input whose split on level-0
\* ',' has more than n items returns Err(TooManyElements), whatever the
\* visitor returned; an input of exactly n well-formed items is decoded to
\* its n elements; a sequence read to its end never returns TooManyElements.
C30_TooManyElements ==
  /\ pc = "tuple" =>
       LET its == SplitList(s, ",")
       IN  /\ Len(its) > decoded.len => decoded.result = TErr("TooManyElements")
           /\ (Len(its) = decoded.len /\ \A k \in 1..Len(its) : WellFormed(its[k], decoded.ty)) =>
                /\ decoded.result.tag = "Ok"
                /\ Len(decoded.result.elems) = decoded.len
                /\ decoded.ty = "String" =>
                     decoded.result.elems = [k \in 1..Len(its) |-> unprotect(its[k])]
           /\ Len(its) < decoded.len => decoded.result.tag # "Ok"
  /\ pc # "TooManyElements"

C30_Witness ==
  /\ pc = "tuple"
  /\ decoded.len = 2
  /\ decoded.ty = "i32"
  /\ Len(SplitList(s, ",")) = 3
  /\ decoded.v.tag = "NotAnInteger"
  /\ decoded.result = TErr("TooManyElements")

====
